---- MODULE Spec2Model ----
(***************************************************************************)
(* Gateway process supervisor (src/gateway/process.ts), environment        *)
(* fingerprint (src/gateway/env.ts) and the boot-time restore decision     *)
(* (start-moltbot.sh) of moltworker.                                       *)
(*                                                                         *)
(* Strings that the program computes, sorts, joins, trims or searches are  *)
(* sequences of one-character strings, so that sort(), join(), trim() and  *)
(* includes() are computed as the runtime computes them.                   *)
(***************************************************************************)
EXTENDS Integers, Sequences, FiniteSets, TLC

(***************************************************************************)
(* Bounds of the model.                                                    *)
(***************************************************************************)
\* entries of an environment snapshot in the fingerprint specification
MaxEntries == 2
\* recognized keys a snapshot of the supervisor specification may carry
NumSupKeys == 2
\* processes the sandbox process table holds before supervision stops
MaxProcs == 2
\* instants (epoch seconds, scaled) a .last-sync marker may record
MaxTime == 3
\* calls of getEnvFingerprint on one snapshot in the fingerprint specification
MaxCalls == 2

(***************************************************************************)
(* Strings as character sequences.                                         *)
(***************************************************************************)
\* UTF-16 code-unit order of the characters that occur in key names and in
\* the joined fingerprint: ',' (0x2C) < 'A'..'Z' (0x41..0x5A) < '_' (0x5F).
CodeUnitOrder ==
    << ",", "A", "B", "C", "D", "E", "F", "G", "H", "I", "J", "K", "L", "M",
       "N", "O", "P", "Q", "R", "S", "T", "U", "V", "W", "X", "Y", "Z", "_" >>

CodeUnit(c) == CHOOSE i \in DOMAIN CodeUnitOrder : CodeUnitOrder[i] = c

\* a < b as JavaScript compares strings (and as Array.prototype.sort() with
\* no comparator orders them): first differing code unit, a proper prefix
\* sorts first.
RECURSIVE StrLess(_, _)
StrLess(a, b) ==
    IF b = <<>> THEN FALSE
    ELSE IF a = <<>> THEN TRUE
    ELSE IF Head(a) = Head(b) THEN StrLess(Tail(a), Tail(b))
    ELSE CodeUnit(Head(a)) < CodeUnit(Head(b))

\* String.prototype.includes
Includes(hay, needle) ==
    \E i \in 0..(Len(hay) - Len(needle)) :
        SubSeq(hay, i + 1, i + Len(needle)) = needle

WhiteSpace == {" ", "\n", "\t"}

RECURSIVE TrimStart(_)
TrimStart(s) ==
    IF s # <<>> /\ Head(s) \in WhiteSpace THEN TrimStart(Tail(s)) ELSE s

RECURSIVE TrimEnd(_)
TrimEnd(s) ==
    IF s # <<>> /\ s[Len(s)] \in WhiteSpace
    THEN TrimEnd(SubSeq(s, 1, Len(s) - 1)) ELSE s

\* String.prototype.trim
Trim(s) == TrimEnd(TrimStart(s))

(***************************************************************************)
(* Environment snapshots and the fingerprint (env.ts).                     *)
(***************************************************************************)
\* the keys getEnvFingerprint tests, in the order it tests them
RecognizedKeys ==
    << "AI_GATEWAY_API_KEY",
       "AI_GATEWAY_BASE_URL",
       "ANTHROPIC_API_KEY",
       "ANTHROPIC_BASE_URL",
       "OPENAI_API_KEY",
       "MOLTBOT_GATEWAY_TOKEN",
       "DEV_MODE",
       "CLAWDBOT_BIND_MODE",
       "TELEGRAM_BOT_TOKEN",
       "TELEGRAM_DM_POLICY",
       "DISCORD_BOT_TOKEN",
       "DISCORD_DM_POLICY",
       "SLACK_BOT_TOKEN",
       "SLACK_APP_TOKEN",
       "CDP_SECRET",
       "WORKER_URL",
       "GITHUB_TOKEN",
       "BRAVE_API_KEY",
       "X_BEARER_TOKEN",
       "X_CONSUMER_KEY",
       "X_CONSUMER_SECRET",
       "X_ACCESS_TOKEN",
       "X_ACCESS_TOKEN_SECRET",
       "OPENROUTER_API_KEY",
       "VIBEIT_API_KEY",
       "PUBLER_API_KEY",
       "PUBLER_WORKSPACE_ID" >>

KeyChars ==
    [ AI_GATEWAY_API_KEY |->
        <<"A","I","_","G","A","T","E","W","A","Y","_","A","P","I","_","K","E","Y">>,
      AI_GATEWAY_BASE_URL |->
        <<"A","I","_","G","A","T","E","W","A","Y","_","B","A","S","E","_","U","R","L">>,
      ANTHROPIC_API_KEY |->
        <<"A","N","T","H","R","O","P","I","C","_","A","P","I","_","K","E","Y">>,
      ANTHROPIC_BASE_URL |->
        <<"A","N","T","H","R","O","P","I","C","_","B","A","S","E","_","U","R","L">>,
      OPENAI_API_KEY |->
        <<"O","P","E","N","A","I","_","A","P","I","_","K","E","Y">>,
      MOLTBOT_GATEWAY_TOKEN |->
        <<"M","O","L","T","B","O","T","_","G","A","T","E","W","A","Y","_","T","O","K","E","N">>,
      DEV_MODE |->
        <<"D","E","V","_","M","O","D","E">>,
      CLAWDBOT_BIND_MODE |->
        <<"C","L","A","W","D","B","O","T","_","B","I","N","D","_","M","O","D","E">>,
      TELEGRAM_BOT_TOKEN |->
        <<"T","E","L","E","G","R","A","M","_","B","O","T","_","T","O","K","E","N">>,
      TELEGRAM_DM_POLICY |->
        <<"T","E","L","E","G","R","A","M","_","D","M","_","P","O","L","I","C","Y">>,
      DISCORD_BOT_TOKEN |->
        <<"D","I","S","C","O","R","D","_","B","O","T","_","T","O","K","E","N">>,
      DISCORD_DM_POLICY |->
        <<"D","I","S","C","O","R","D","_","D","M","_","P","O","L","I","C","Y">>,
      SLACK_BOT_TOKEN |->
        <<"S","L","A","C","K","_","B","O","T","_","T","O","K","E","N">>,
      SLACK_APP_TOKEN |->
        <<"S","L","A","C","K","_","A","P","P","_","T","O","K","E","N">>,
      CDP_SECRET |->
        <<"C","D","P","_","S","E","C","R","E","T">>,
      WORKER_URL |->
        <<"W","O","R","K","E","R","_","U","R","L">>,
      GITHUB_TOKEN |->
        <<"G","I","T","H","U","B","_","T","O","K","E","N">>,
      BRAVE_API_KEY |->
        <<"B","R","A","V","E","_","A","P","I","_","K","E","Y">>,
      X_BEARER_TOKEN |->
        <<"X","_","B","E","A","R","E","R","_","T","O","K","E","N">>,
      X_CONSUMER_KEY |->
        <<"X","_","C","O","N","S","U","M","E","R","_","K","E","Y">>,
      X_CONSUMER_SECRET |->
        <<"X","_","C","O","N","S","U","M","E","R","_","S","E","C","R","E","T">>,
      X_ACCESS_TOKEN |->
        <<"X","_","A","C","C","E","S","S","_","T","O","K","E","N">>,
      X_ACCESS_TOKEN_SECRET |->
        <<"X","_","A","C","C","E","S","S","_","T","O","K","E","N","_","S","E","C","R","E","T">>,
      OPENROUTER_API_KEY |->
        <<"O","P","E","N","R","O","U","T","E","R","_","A","P","I","_","K","E","Y">>,
      VIBEIT_API_KEY |->
        <<"V","I","B","E","I","T","_","A","P","I","_","K","E","Y">>,
      PUBLER_API_KEY |->
        <<"P","U","B","L","E","R","_","A","P","I","_","K","E","Y">>,
      PUBLER_WORKSPACE_ID |->
        <<"P","U","B","L","E","R","_","W","O","R","K","S","P","A","C","E","_","I","D">> ]

KeyNames == {RecognizedKeys[i] : i \in DOMAIN RecognizedKeys}

\* values a key may carry: the empty string (falsy in JavaScript), a secret,
\* and a weak secret that happens to spell a word of a key name
EmptyValue == <<>>
SecretA == <<"s","k","-","1">>
SecretB == <<"T","O","K","E","N">>
Values == {EmptyValue, SecretA, SecretB}

\* A snapshot is the worker's env object: its own properties in insertion
\* order, each key at most once.
Entries(keys) == [key : keys, value : Values]

DistinctKeys(s) == \A i, j \in DOMAIN s : s[i].key = s[j].key => i = j

Snapshots(keys, n) ==
    {s \in UNION {[1..m -> Entries(keys)] : m \in 0..n} : DistinctKeys(s)}

\* the snapshots of the supervisor specification: keys that the code tests
\* in an order that is not their sorted order
SupKeyOrder ==
    << "OPENAI_API_KEY", "MOLTBOT_GATEWAY_TOKEN", "DEV_MODE", "CLAWDBOT_BIND_MODE" >>

SupKeys == {SupKeyOrder[i] : i \in 1..NumSupKeys}

SupPosition(k) == CHOOSE i \in DOMAIN SupKeyOrder : SupKeyOrder[i] = k

\* one snapshot for every set of present keys (the supervisor reads a
\* snapshot only through getEnvFingerprint)
SupSnapshots ==
    {s \in Snapshots(SupKeys, NumSupKeys) :
        /\ \A i \in DOMAIN s : s[i].value = SecretA
        /\ \A i, j \in DOMAIN s :
              i < j => SupPosition(s[i].key) < SupPosition(s[j].key)}

\* Truthy as `'K' in env` would have it: an empty value counts as present
Truthy_AnyValue(env, k) == \E i \in DOMAIN env : env[i].key = k

\* `if (env.K)`: the property exists and its value is a non-empty string
Truthy(env, k) == \E i \in DOMAIN env : env[i].key = k /\ env[i].value # <<>>

PresentKeys(env) == {k \in KeyNames : Truthy(env, k)}

\* Array.prototype.sort() on strings
RECURSIVE InsertSorted(_, _)
InsertSorted(k, s) ==
    IF s = <<>> THEN <<k>>
    ELSE IF StrLess(KeyChars[k], KeyChars[Head(s)]) THEN <<k>> \o s
    ELSE <<Head(s)>> \o InsertSorted(k, Tail(s))

RECURSIVE SortKeys(_)
SortKeys(s) == IF s = <<>> THEN <<>> ELSE InsertSorted(Head(s), SortKeys(Tail(s)))

\* Array.prototype.join(',')
RECURSIVE JoinKeys(_)
JoinKeys(s) ==
    IF s = <<>> THEN <<>>
    ELSE IF Len(s) = 1 THEN KeyChars[s[1]]
    ELSE KeyChars[s[1]] \o <<",">> \o JoinKeys(Tail(s))

\* PushedKeys with the line of MOLTBOT_GATEWAY_TOKEN forgotten
PushedKeys_KeyForgotten(env) ==
    SelectSeq(RecognizedKeys,
              LAMBDA k : k # "MOLTBOT_GATEWAY_TOKEN"
                         /\ \E i \in DOMAIN env :
                               env[i].key = k /\ env[i].value # <<>>)

\* the keys array after the 27 `if (env.K) keys.push('K')` statements
PushedKeys(env) == SelectSeq(RecognizedKeys, LAMBDA k : Truthy(env, k))

RECURSIVE ValuesOf(_)
ValuesOf(env) ==
    IF env = <<>> THEN <<>> ELSE <<"=">> \o Head(env).value \o ValuesOf(Tail(env))

\* getEnvFingerprint fingerprinting the values along with the keys
getEnvFingerprint_WithValues(env) ==
    JoinKeys(SortKeys(SelectSeq(RecognizedKeys,
        LAMBDA k : \E i \in DOMAIN env : env[i].key = k /\ env[i].value # <<>>)))
    \o ValuesOf(env)

getEnvFingerprint(env) == JoinKeys(SortKeys(PushedKeys(env)))

\* `env.K`: the value of the property, the empty string standing for
\* undefined (both are falsy, and `?.` maps undefined to undefined)
ValueOf(env, k) ==
    IF \E i \in DOMAIN env : env[i].key = k
    THEN env[CHOOSE i \in DOMAIN env : env[i].key = k].value
    ELSE <<>>

\* String.prototype.replace(/\/+$/, '')
RECURSIVE StripTrailingSlashes(_)
StripTrailingSlashes(s) ==
    IF s # <<>> /\ s[Len(s)] = "/"
    THEN StripTrailingSlashes(SubSeq(s, 1, Len(s) - 1))
    ELSE s

\* String.prototype.endsWith
EndsWith(s, suffix) ==
    /\ Len(s) >= Len(suffix)
    /\ SubSeq(s, Len(s) - Len(suffix) + 1, Len(s)) = suffix

OpenAISuffix == <<"/","o","p","e","n","a","i">>

\* the keys buildEnvVars copies under their own name (lines 85-108)
PassedThrough ==
    KeyNames \ {"AI_GATEWAY_API_KEY", "AI_GATEWAY_BASE_URL", "ANTHROPIC_API_KEY",
                "ANTHROPIC_BASE_URL", "OPENAI_API_KEY", "MOLTBOT_GATEWAY_TOKEN",
                "DEV_MODE"}

\* the names buildEnvVars may give the launched process
LaunchNames ==
    PassedThrough \cup
    {"ANTHROPIC_API_KEY", "OPENAI_API_KEY", "AI_GATEWAY_BASE_URL",
     "OPENAI_BASE_URL", "ANTHROPIC_BASE_URL", "CLAWDBOT_GATEWAY_TOKEN",
     "CLAWDBOT_DEV_MODE"}

\* buildEnvVars: every assignment is guarded by the truthiness of the value
\* assigned, so a name is in the record exactly when its value is non-empty
buildEnvVars(env) ==
    LET normalizedBaseUrl ==
            StripTrailingSlashes(ValueOf(env, "AI_GATEWAY_BASE_URL"))
        isOpenAIGateway == EndsWith(normalizedBaseUrl, OpenAISuffix)
        gatewayKey == ValueOf(env, "AI_GATEWAY_API_KEY")
        value == [k \in LaunchNames |->
                    CASE k = "ANTHROPIC_API_KEY" ->
                           IF gatewayKey # <<>> /\ ~isOpenAIGateway
                           THEN gatewayKey
                           ELSE ValueOf(env, "ANTHROPIC_API_KEY")
                      [] k = "OPENAI_API_KEY" ->
                           IF gatewayKey # <<>> /\ isOpenAIGateway
                           THEN gatewayKey
                           ELSE ValueOf(env, "OPENAI_API_KEY")
                      [] k = "AI_GATEWAY_BASE_URL" -> normalizedBaseUrl
                      [] k = "OPENAI_BASE_URL" ->
                           IF isOpenAIGateway THEN normalizedBaseUrl ELSE <<>>
                      [] k = "ANTHROPIC_BASE_URL" ->
                           IF normalizedBaseUrl # <<>>
                           THEN IF isOpenAIGateway THEN <<>>
                                ELSE normalizedBaseUrl
                           ELSE ValueOf(env, "ANTHROPIC_BASE_URL")
                      [] k = "CLAWDBOT_GATEWAY_TOKEN" ->
                           ValueOf(env, "MOLTBOT_GATEWAY_TOKEN")
                      [] k = "CLAWDBOT_DEV_MODE" -> ValueOf(env, "DEV_MODE")
                      [] OTHER -> ValueOf(env, k)]
    IN  [k \in {n \in LaunchNames : value[n] # <<>>} |-> value[k]]

\* the snapshots of the launch-environment specification: the provider keys
\* and one mapped key, a value being empty, a secret or a gateway endpoint
LaunchKeys ==
    {"AI_GATEWAY_API_KEY", "AI_GATEWAY_BASE_URL", "ANTHROPIC_API_KEY",
     "ANTHROPIC_BASE_URL", "OPENAI_API_KEY", "MOLTBOT_GATEWAY_TOKEN"}

UrlValues ==
    {<<"h">>, <<"h","/","o","p","e","n","a","i">>,
     <<"h","/","o","p","e","n","a","i","/">>, <<"/">>}

LaunchSnapshots ==
    {s \in UNION {[1..m -> [key : LaunchKeys,
                            value : {EmptyValue, SecretA} \cup UrlValues]] :
                     m \in 0..MaxEntries} : DistinctKeys(s)}

(***************************************************************************)
(* State.                                                                  *)
(***************************************************************************)
VARIABLES
    env,                \* the environment snapshot of the current invocation
    pc,                 \* position inside ensureMoltbotGateway
    procs,              \* the sandbox process table; a process id is its index
    markerFile,         \* content of /tmp/.env-fingerprint, or NoFile
    r2Mounted,          \* the bucket is in the live mount table
    currentFingerprint, \* local of ensureMoltbotGateway
    storedFingerprint, \* local of ensureMoltbotGateway (Unread before line 84)
    existingProcess,    \* local of ensureMoltbotGateway (0 is null)
    process,            \* local of ensureMoltbotGateway (0 is unassigned)
    caught,             \* the exception `e` held by the catch at line 156
    outcome,            \* how the invocation ended
    calls,              \* the sandbox calls of the invocation, in order
    prev,               \* what the previous invocation saw and returned
    fingerprints,       \* results of the getEnvFingerprint calls (FpSpec)
    r2SyncFile,         \* $BACKUP_DIR/.last-sync
    localSyncFile,      \* $CONFIG_DIR/.last-sync
    todayMidnight,      \* epoch of 00:00 today on the container's clock
    restoreDecision,    \* exit status of should_restore_from_r2, or NoDecision
    found,              \* result of findExistingMoltbotProcess (FindSpec)
    syncPc,             \* position inside syncToR2 / syncToGitHub
    syncResult,         \* the SyncResult returned, or NoResult
    syncSteps,          \* what the invocation started in the sandbox, in order
    now,                \* the clock (`date -Iseconds`, new Date())
    localConfig,        \* which of openclaw.json, clawdbot.json exist locally
    localWorkspace,     \* version of the content of /root/clawd
    markerBefore,       \* $R2/.last-sync when the invocation began
    repo,               \* the clone in /tmp/moltbot-backup-repo and its remote
    workTree,           \* the working tree of the clone
    lastBackup,         \* what the last successful syncToGitHub saw and left
    syncOp,             \* the operation running or last run
    syncEnv,            \* the credentials its caller's env holds
    configDir,          \* the config files of /root/.openclaw (or .clawdbot)
    repoConfig,         \* config/ of the backup repository's working tree
    bootPc,             \* position inside the restore part of start-moltbot.sh
    store,              \* the trees under $BACKUP_DIR, by target
    disk,               \* the local trees, by target
    diskBefore,         \* the local trees when the script began
    restored,           \* what the script did with each target
    envVars,            \* results of the buildEnvVars calls (EnvSpec)
    frames,             \* the locals of each concurrent invocation (RaceSpec)
    mirrorPc,           \* position inside the backup command of syncToR2
    mirrorSuccess,      \* the `success` syncToR2 returned, or "pending"
    bootAtMirror,       \* where the start script was when syncToR2 began
    mirrorAtBoot,       \* where syncToR2 was when the start script began
    storeAtBoot,        \* the trees under $BACKUP_DIR when the script began
    diskAtSync,         \* the local trees when syncToR2 began
    wiped               \* the container's disk was lost since the last sync

supVars ==
    << env, pc, procs, markerFile, r2Mounted, currentFingerprint,
       storedFingerprint, existingProcess, process, caught, outcome, calls, prev >>

restoreVars == << r2SyncFile, localSyncFile, todayMidnight, restoreDecision >>

findVars == << found >>

syncVars ==
    << syncPc, syncResult, syncSteps, now, localConfig, localWorkspace,
       markerBefore, repo, workTree, lastBackup, syncOp, syncEnv >>

redactVars == << configDir, repoConfig >>

bootVars == << bootPc, store, disk, diskBefore, restored >>

lifeVars ==
    << mirrorPc, mirrorSuccess, bootAtMirror, mirrorAtBoot, storeAtBoot,
       diskAtSync, wiped >>

extraVars == << envVars, frames, lifeVars >>

vars ==
    << supVars, fingerprints, restoreVars, findVars, syncVars, redactVars,
       bootVars, extraVars >>

(***************************************************************************)
(* The sandbox: files, processes.                                          *)
(***************************************************************************)
\* a file that does not exist; file contents are character sequences
NoFile == << "ENOENT" >>

\* storedFingerprint before it is assigned
Unread == << "unassigned" >>

\* `echo 'text' > file`
EchoTo(text) == text \o << "\n" >>

\* stdout of `cat file`: the content, or nothing when the file is missing
\* (exec resolves with a non-zero exitCode, it does not reject)
CatStdout(file) == IF file = NoFile THEN <<>> ELSE file

GatewayCommand == "/usr/local/bin/start-moltbot.sh"

\* other commands a sandbox process table can hold: the gateway started by
\* hand, the device CLI, a shell line that names both, an unrelated command
OpenclawGateway == "openclaw gateway"
DevicesList == "openclaw devices list"
VersionThenGateway == "openclaw --version; openclaw gateway"
SyncFileRead == "cat .last-sync"

Commands ==
    {GatewayCommand, OpenclawGateway, DevicesList, VersionThenGateway,
     SyncFileRead}

CommandChars ==
    [ c \in Commands |->
        CASE c = GatewayCommand ->
                <<"/","u","s","r","/","l","o","c","a","l","/","b","i","n","/",
                  "s","t","a","r","t","-","m","o","l","t","b","o","t",".","s","h">>
          [] c = OpenclawGateway ->
                <<"o","p","e","n","c","l","a","w"," ","g","a","t","e","w","a","y">>
          [] c = DevicesList ->
                <<"o","p","e","n","c","l","a","w"," ","d","e","v","i","c","e","s"," ","l","i","s","t">>
          [] c = VersionThenGateway ->
                <<"o","p","e","n","c","l","a","w"," ","-","-","v","e","r","s","i","o","n",";"," ","o","p","e","n","c","l","a","w"," ","g","a","t","e","w","a","y">>
          [] OTHER ->
                <<"c","a","t"," ",".","l","a","s","t","-","s","y","n","c">> ]

Statuses == {"starting", "running", "stopped", "failed"}

P_start_moltbot == <<"s","t","a","r","t","-","m","o","l","t","b","o","t",".","s","h">>
P_openclaw_gateway == <<"o","p","e","n","c","l","a","w"," ","g","a","t","e","w","a","y">>
P_clawdbot_gateway == <<"c","l","a","w","d","b","o","t"," ","g","a","t","e","w","a","y">>
P_openclaw_devices == <<"o","p","e","n","c","l","a","w"," ","d","e","v","i","c","e","s">>
P_openclaw_version == <<"o","p","e","n","c","l","a","w"," ","-","-","v","e","r","s","i","o","n">>
P_clawdbot_devices == <<"c","l","a","w","d","b","o","t"," ","d","e","v","i","c","e","s">>
P_clawdbot_version == <<"c","l","a","w","d","b","o","t"," ","-","-","v","e","r","s","i","o","n">>

isGatewayProcess(command) ==
    \/ Includes(CommandChars[command], P_start_moltbot)
    \/ Includes(CommandChars[command], P_openclaw_gateway)
    \/ Includes(CommandChars[command], P_clawdbot_gateway)

\* isCliCommand without the exclusion patterns
isCliCommand_Never(command) == Includes(CommandChars[command], <<"\n">>)

isCliCommand(command) ==
    \/ Includes(CommandChars[command], P_openclaw_devices)
    \/ Includes(CommandChars[command], P_openclaw_version)
    \/ Includes(CommandChars[command], P_clawdbot_devices)
    \/ Includes(CommandChars[command], P_clawdbot_version)

Matches(proc) ==
    /\ isGatewayProcess(proc.command) /\ ~isCliCommand(proc.command)
    /\ proc.status \in {"starting", "running"}

\* findExistingMoltbotProcess without the try/catch around listProcesses
\* taking effect: the listing is searched whether or not the call resolved
findExistingMoltbotProcess_IgnoresRejection(table, listOk) ==
    IF \E i \in DOMAIN table : Matches(table[i])
    THEN CHOOSE i \in DOMAIN table :
            Matches(table[i]) /\ \A j \in 1..(i - 1) : ~Matches(table[j])
    ELSE 0

\* findExistingMoltbotProcess: the first process of the listing that is a
\* gateway in status starting/running; null (0) when there is none or when
\* listProcesses rejects
findExistingMoltbotProcess(table, listOk) ==
    IF listOk /\ \E i \in DOMAIN table : Matches(table[i])
    THEN CHOOSE i \in DOMAIN table :
            Matches(table[i]) /\ \A j \in 1..(i - 1) : ~Matches(table[j])
    ELSE 0

Call(op, pid, ok) == [op |-> op, pid |-> pid, ok |-> ok]

NoOutcome == [kind |-> "none", handle |-> 0, error |-> "none"]
Ready(pid) == [kind |-> "ready", handle |-> pid, error |-> "none"]
Failed(err) == [kind |-> "failed", handle |-> 0, error |-> err]

\* what the caller of the previous invocation holds: the handle it got
\* (0 when it got an error), the keys present in that invocation's snapshot,
\* and whether the marker then held that invocation's fingerprint
NoPrev == [handle |-> 0, keys |-> {}, markerCurrent |-> FALSE]

(***************************************************************************)
(* mountR2Storage (gateway/r2.ts)                                          *)
(***************************************************************************)
\* false without side effects when the credentials are incomplete; otherwise
\* one mount attempt, and the answer is what the live mount table shows
mountR2Storage(credentials, mounted, attemptOk) ==
    IF ~credentials THEN [mounted |-> mounted, result |-> FALSE]
    ELSE [mounted |-> mounted \/ attemptOk, result |-> mounted \/ attemptOk]

(***************************************************************************)
(* ensureMoltbotGateway (gateway/process.ts), one action per awaited call. *)
(***************************************************************************)
Terminal == pc \in {"returned", "threw"}

restoreUnchanged ==
    UNCHANGED << fingerprints, restoreVars, findVars, syncVars, redactVars,
                 bootVars, extraVars >>

\* a caller invokes ensureMoltbotGateway(sandbox, e)
Begin(e) ==
    /\ pc = "idle"
    /\ Len(procs) < MaxProcs
    /\ env' = e
    /\ pc' = "mount"
    /\ UNCHANGED << procs, markerFile, r2Mounted, currentFingerprint,
                    storedFingerprint, existingProcess, process, caught,
                    outcome, calls, prev >>
    /\ restoreUnchanged

\* the invocation has returned or thrown: its frame is gone, the caller
\* keeps the result
Finish ==
    /\ Terminal
    /\ pc' = "idle"
    /\ prev' = IF outcome.kind = "ready"
               THEN [handle |-> outcome.handle, keys |-> PresentKeys(env),
                     markerCurrent |->
                         Trim(CatStdout(markerFile)) = currentFingerprint]
               ELSE NoPrev
    /\ env' = <<>>
    /\ currentFingerprint' = <<>>
    /\ storedFingerprint' = Unread
    /\ existingProcess' = 0
    /\ process' = 0
    /\ caught' = "none"
    /\ outcome' = NoOutcome
    /\ calls' = <<>>
    /\ UNCHANGED << procs, markerFile, r2Mounted >>
    /\ restoreUnchanged

\* line 58: await mountR2Storage(sandbox, env); the result is not used
Mount(credentials, attemptOk) ==
    /\ pc = "mount"
    /\ r2Mounted' = mountR2Storage(credentials, r2Mounted, attemptOk).mounted
    /\ pc' = "setEnvVars"
    /\ UNCHANGED << env, procs, markerFile, currentFingerprint,
                    storedFingerprint, existingProcess, process, caught,
                    outcome, calls, prev >>
    /\ restoreUnchanged

\* lines 63-72: setEnvVars in a try/catch that swallows, then the fingerprint
SetEnvVars(ok) ==
    /\ pc = "setEnvVars"
    /\ ok \in BOOLEAN
    /\ currentFingerprint' = getEnvFingerprint(env)
    /\ pc' = "find"
    /\ UNCHANGED << env, procs, markerFile, r2Mounted, storedFingerprint,
                    existingProcess,
                    process, caught, outcome, calls, prev >>
    /\ restoreUnchanged

\* lines 75-76
FindExisting(listOk) ==
    /\ pc = "find"
    /\ existingProcess' = findExistingMoltbotProcess(procs, listOk)
    /\ calls' = Append(calls, Call("listProcesses", 0, listOk))
    /\ pc' = IF existingProcess' # 0 THEN "readMarker" ELSE "writeMarker"
    /\ UNCHANGED << env, procs, markerFile, r2Mounted, currentFingerprint,
                    storedFingerprint, process, caught, outcome, prev >>
    /\ restoreUnchanged

\* lines 81-93: envChanged
envChanged(execOk, file, fingerprint) ==
    IF execOk THEN Trim(CatStdout(file)) # fingerprint ELSE TRUE

\* lines 82-95 and 103
ReadMarker(execOk) ==
    /\ pc = "readMarker"
    /\ calls' = Append(calls, Call("readMarker", existingProcess, execOk))
    /\ storedFingerprint' =
           IF execOk THEN Trim(CatStdout(markerFile)) ELSE storedFingerprint
    /\ pc' = IF envChanged(execOk, markerFile, currentFingerprint)
             THEN "killChanged" ELSE "probeExisting"
    /\ UNCHANGED << env, procs, markerFile, r2Mounted, currentFingerprint,
                    existingProcess, process, caught, outcome, prev >>
    /\ restoreUnchanged

\* Process.kill(): resolves after the process is terminated, or rejects
KillProcess(table, pid, ok) ==
    IF ok THEN [table EXCEPT ![pid].status = "stopped"] ELSE table

\* KillChanged without the kill of line 98
KillChanged_NoKill(ok) ==
    /\ pc = "killChanged"
    /\ ok \in BOOLEAN
    /\ pc' = "writeMarker"
    /\ UNCHANGED << env, procs, markerFile, r2Mounted, currentFingerprint,
                    storedFingerprint, existingProcess, process, caught,
                    outcome, calls, prev >>
    /\ restoreUnchanged

\* lines 96-102
KillChanged(ok) ==
    /\ pc = "killChanged"
    /\ procs' = KillProcess(procs, existingProcess, ok)
    /\ calls' = Append(calls, Call("kill", existingProcess, ok))
    /\ pc' = "writeMarker"
    /\ UNCHANGED << env, markerFile, r2Mounted, currentFingerprint,
                    storedFingerprint, existingProcess, process, caught,
                    outcome, prev >>
    /\ restoreUnchanged

\* ProbeExisting that returns the handle whatever the probe said
ProbeExisting_Trusting(ok) ==
    /\ pc = "probeExisting"
    /\ calls' = Append(calls, Call("waitForPort", existingProcess, ok))
    /\ outcome' = Ready(existingProcess)
    /\ pc' = "returned"
    /\ UNCHANGED << env, procs, markerFile, r2Mounted, currentFingerprint,
                    storedFingerprint, existingProcess, process, caught, prev >>
    /\ restoreUnchanged

\* ProbeExisting without the `return` of line 109
ProbeExisting_NoReturn(ok) ==
    /\ pc = "probeExisting"
    /\ calls' = Append(calls, Call("waitForPort", existingProcess, ok))
    /\ pc' = "writeMarker"
    /\ UNCHANGED << env, procs, markerFile, r2Mounted, currentFingerprint,
                    storedFingerprint, existingProcess, process, caught,
                    outcome, prev >>
    /\ restoreUnchanged

\* lines 105-110: the probe of the existing process; success returns it
ProbeExisting(ok) ==
    /\ pc = "probeExisting"
    /\ calls' = Append(calls, Call("waitForPort", existingProcess, ok))
    /\ IF ok
       THEN /\ outcome' = Ready(existingProcess)
            /\ pc' = "returned"
       ELSE /\ outcome' = outcome
            /\ pc' = "killWedged"
    /\ UNCHANGED << env, procs, markerFile, r2Mounted, currentFingerprint,
                    storedFingerprint, existingProcess, process, caught, prev >>
    /\ restoreUnchanged

\* lines 111-118
KillWedged(ok) ==
    /\ pc = "killWedged"
    /\ procs' = KillProcess(procs, existingProcess, ok)
    /\ calls' = Append(calls, Call("kill", existingProcess, ok))
    /\ pc' = "writeMarker"
    /\ UNCHANGED << env, markerFile, r2Mounted, currentFingerprint,
                    storedFingerprint, existingProcess, process, caught,
                    outcome, prev >>
    /\ restoreUnchanged

\* ensureMoltbotGateway without lines 129-134
WriteMarker_Skipped(ok) ==
    /\ pc = "writeMarker"
    /\ pc' = "startProcess"
    /\ UNCHANGED << env, procs, markerFile, r2Mounted, currentFingerprint,
                    storedFingerprint, existingProcess, process, caught,
                    outcome, calls, prev >>
    /\ restoreUnchanged

\* lines 129-134: echo '<fingerprint>' > /tmp/.env-fingerprint, failure swallowed
WriteMarker(ok) ==
    /\ pc = "writeMarker"
    /\ markerFile' = IF ok THEN EchoTo(currentFingerprint) ELSE markerFile
    /\ calls' = Append(calls, Call("writeMarker", 0, ok))
    /\ pc' = "startProcess"
    /\ UNCHANGED << env, procs, r2Mounted, currentFingerprint,
                    storedFingerprint, existingProcess, process, caught,
                    outcome, prev >>
    /\ restoreUnchanged

\* lines 136-145: a rejection of startProcess is rethrown to the caller;
\* entry is what the process table holds for the new process
Launch(ok, entry) ==
    /\ pc = "startProcess"
    /\ IF ok
       THEN /\ procs' = Append(procs, entry)
            /\ process' = Len(procs) + 1
            /\ calls' = Append(calls, Call("startProcess", Len(procs) + 1, TRUE))
            /\ outcome' = outcome
            /\ pc' = "probeNew"
       ELSE /\ procs' = procs
            /\ process' = process
            /\ calls' = Append(calls, Call("startProcess", 0, FALSE))
            /\ outcome' = Failed("startErr")
            /\ pc' = "threw"
    /\ UNCHANGED << env, markerFile, r2Mounted, currentFingerprint,
                    storedFingerprint, existingProcess, caught, prev >>
    /\ restoreUnchanged

StartProcess(ok) ==
    Launch(ok, [command |-> GatewayCommand, status |-> "starting"])

\* StartProcess remembering, with the process, the fingerprint of the
\* snapshot whose buildEnvVars(env) it was given (lines 60 and 139)
StartProcessWithEnv(ok) ==
    Launch(ok, [command |-> GatewayCommand, status |-> "starting",
                fingerprint |-> getEnvFingerprint(env)])

\* ProbeNew that launches again when the probe times out
ProbeNew_Retry(ok) ==
    /\ pc = "probeNew"
    /\ calls' = Append(calls, Call("waitForPort", process, ok))
    /\ caught' = caught
    /\ pc' = IF ok THEN "logsReady" ELSE "startProcess"
    /\ UNCHANGED << env, procs, markerFile, r2Mounted, currentFingerprint,
                    storedFingerprint, existingProcess, process, outcome, prev >>
    /\ restoreUnchanged

\* line 150, inside the try of line 148
ProbeNew(ok) ==
    /\ pc = "probeNew"
    /\ calls' = Append(calls, Call("waitForPort", process, ok))
    /\ caught' = IF ok THEN caught ELSE "probeTimeout"
    /\ pc' = IF ok THEN "logsReady" ELSE "logsFailed"
    /\ UNCHANGED << env, procs, markerFile, r2Mounted, currentFingerprint,
                    storedFingerprint, existingProcess, process, outcome, prev >>
    /\ restoreUnchanged

\* lines 153-155 (still inside the try of line 148) and 169-172
LogsReady(ok) ==
    /\ pc = "logsReady"
    /\ calls' = Append(calls, Call("getLogs", process, ok))
    /\ IF ok
       THEN /\ outcome' = Ready(process)
            /\ caught' = caught
            /\ pc' = "returned"
       ELSE /\ outcome' = outcome
            /\ caught' = "logsErr"
            /\ pc' = "logsFailed"
    /\ UNCHANGED << env, procs, markerFile, r2Mounted, currentFingerprint,
                    storedFingerprint, existingProcess, process, prev >>
    /\ restoreUnchanged

\* lines 158-166: what leaves the catch block of line 156.  The diagnostic
\* Error of line 162 is thrown inside the try of line 158, so the catch of
\* line 163 receives it as logErr and rethrows e.
RaisedFromCatch(e, logsOk) ==
    LET thrownInTry == IF logsOk THEN "diagnostic" ELSE "logErr" IN
    IF thrownInTry \in {"diagnostic", "logErr"} THEN e ELSE thrownInTry

\* LogsFailed with the errors of lines 162 and 165 swallowed, so that
\* control reaches the `return process` of line 172
LogsFailed_Swallowed(ok) ==
    /\ pc = "logsFailed"
    /\ calls' = Append(calls, Call("getLogs", process, ok))
    /\ outcome' = Ready(process)
    /\ pc' = "returned"
    /\ UNCHANGED << env, procs, markerFile, r2Mounted, currentFingerprint,
                    storedFingerprint, existingProcess, process, caught,
                    prev >>
    /\ restoreUnchanged

\* lines 156-167
LogsFailed(ok) ==
    /\ pc = "logsFailed"
    /\ calls' = Append(calls, Call("getLogs", process, ok))
    /\ outcome' = Failed(RaisedFromCatch(caught, ok))
    /\ pc' = "threw"
    /\ UNCHANGED << env, procs, markerFile, r2Mounted, currentFingerprint,
                    storedFingerprint, existingProcess, process, caught, prev >>
    /\ restoreUnchanged

(***************************************************************************)
(* The sandbox between invocations.                                        *)
(***************************************************************************)
\* a process comes up, exits or crashes on its own
StatusChange(pid, status) ==
    /\ pc = "idle"
    /\ pid \in DOMAIN procs
    /\ \/ procs[pid].status = "starting" /\ status \in {"running", "stopped", "failed"}
       \/ procs[pid].status = "running" /\ status \in {"stopped", "failed"}
    /\ procs' = [procs EXCEPT ![pid].status = status]
    /\ UNCHANGED << env, pc, markerFile, r2Mounted, currentFingerprint,
                    storedFingerprint, existingProcess, process, caught,
                    outcome, calls, prev >>
    /\ restoreUnchanged

\* the container is recycled: processes, /tmp and the mount are gone
ContainerReset ==
    /\ pc = "idle"
    /\ procs # <<>>
    /\ procs' = <<>>
    /\ markerFile' = NoFile
    /\ r2Mounted' = FALSE
    /\ prev' = NoPrev
    /\ UNCHANGED << env, pc, currentFingerprint, storedFingerprint,
                    existingProcess, process, caught, outcome, calls >>
    /\ restoreUnchanged

(***************************************************************************)
(* should_restore_from_r2 (start-moltbot.sh)                               *)
(***************************************************************************)
\* A .last-sync file: missing, or one line of text.  The text is an
\* ISO-8601 instant (what `date -Iseconds` writes), nothing at all, or
\* something that is not a date.
NoSyncFile == [kind |-> "missing", epoch |-> 0]
EmptyText == [kind |-> "empty", epoch |-> 0]
GarbageText == [kind |-> "garbage", epoch |-> 0]
IsoText(t) == [kind |-> "iso", epoch |-> t]

SyncFiles == {NoSyncFile, EmptyText, GarbageText} \cup {IsoText(t) : t \in 1..MaxTime}

\* `date -d "$text" +%s` of GNU coreutils: an ISO instant gives its epoch,
\* the empty string is accepted and means 00:00 today, anything else fails
DateToEpoch(text, midnight) ==
    CASE text.kind = "iso" -> [ok |-> TRUE, out |-> text.epoch]
      [] text.kind = "empty" -> [ok |-> TRUE, out |-> midnight]
      [] OTHER -> [ok |-> FALSE, out |-> 0]

\* $(date -d "$text" +%s 2>/dev/null || echo "0")
EpochOrZero(text, midnight) ==
    IF DateToEpoch(text, midnight).ok THEN DateToEpoch(text, midnight).out ELSE 0

RestoreYes == "restore"
RestoreNo == "skip"
NoDecision == "undecided"

\* should_restore_from_r2 comparing with -ge instead of -gt
should_restore_from_r2_NotStrict(r2File, localFile, midnight) ==
    IF r2File = NoSyncFile THEN RestoreNo
    ELSE IF localFile = NoSyncFile THEN RestoreYes
    ELSE IF EpochOrZero(r2File, midnight) >= EpochOrZero(localFile, midnight)
         THEN RestoreYes
         ELSE RestoreNo

\* should_restore_from_r2: `return 0` restores, `return 1` skips
should_restore_from_r2(r2File, localFile, midnight) ==
    IF r2File = NoSyncFile THEN RestoreNo
    ELSE IF localFile = NoSyncFile THEN RestoreYes
    ELSE IF EpochOrZero(r2File, midnight) > EpochOrZero(localFile, midnight)
         THEN RestoreYes
         ELSE RestoreNo

NoRestoreState ==
    /\ r2SyncFile = NoSyncFile
    /\ localSyncFile = NoSyncFile
    /\ todayMidnight = 1
    /\ restoreDecision = NoDecision

\* findExistingMoltbotProcess has not been called on its own
NotCalled == 0 - 1

NoFindState == found = NotCalled

\* a SyncResult; error and details are '' when the property is absent,
\* lastSync is 0 when absent and otherwise the instant it names
SyncResult(success, error, details, lastSync) ==
    [success |-> success, error |-> error, details |-> details,
     lastSync |-> lastSync]

NoResult == SyncResult(FALSE, "pending", "", 0)

\* the tree of a changeset or of the working directory: the version of the
\* workspace copied into it and the instant in BACKUP_TIMESTAMP.txt
Tree(workspace, stamp) == [workspace |-> workspace, stamp |-> stamp]

NoTree == Tree(0, 0)

\* no clone yet, nothing committed, nothing pushed
NoRepo == [cloned |-> FALSE, head |-> NoTree, changesets |-> 0, pushed |-> 0]

NoBackup == [workspace |-> 0, changesets |-> 0, pushed |-> 0]

\* the part of env the two operations read: which of the R2 keys are set,
\* and whether GITHUB_TOKEN is
Credentials(r2, github) == [r2 |-> r2, github |-> github]

NoCredentials == Credentials({}, FALSE)

\* the two config files of a directory, each a text or NoFile
Dir(openclaw, clawdbot) == [openclaw |-> openclaw, clawdbot |-> clawdbot]

NoDir == Dir(NoFile, NoFile)

NoRedactState ==
    /\ configDir = NoDir
    /\ repoConfig = NoDir

\* the three targets of a backup, as start-moltbot.sh restores them
Targets == {"config", "skills", "workspace"}

\* the paths of a tree.  In the config tree "main" is the config file the
\* script tests for (openclaw.json, or clawdbot.json in the older layouts)
Paths == {"main", "extra"}

Absent == "absent"

\* a tree: the content of each path, or Absent
EmptyTree == [p \in Paths |-> Absent]

NothingRestored == [t \in Targets |-> "pending"]

NoBootState ==
    /\ bootPc = "off"
    /\ store = [t \in Targets |-> EmptyTree]
    /\ disk = [t \in Targets |-> EmptyTree]
    /\ diskBefore = [t \in Targets |-> EmptyTree]
    /\ restored = NothingRestored

NoLifeState ==
    /\ mirrorPc = "idle"
    /\ mirrorSuccess = "pending"
    /\ bootAtMirror = "off"
    /\ mirrorAtBoot = "idle"
    /\ storeAtBoot = [t \in Targets |-> EmptyTree]
    /\ diskAtSync = [t \in Targets |-> EmptyTree]
    /\ wiped = FALSE

NoExtraState ==
    /\ envVars = <<>>
    /\ frames = <<>>
    /\ NoLifeState

NoSyncState ==
    /\ syncPc = "idle"
    /\ syncResult = NoResult
    /\ syncSteps = <<>>
    /\ now = 1
    /\ localConfig = {}
    /\ localWorkspace = 1
    /\ markerBefore = NoSyncFile
    /\ repo = NoRepo
    /\ workTree = NoTree
    /\ lastBackup = NoBackup
    /\ syncOp = "none"
    /\ syncEnv = NoCredentials

SupInit ==
    /\ env = <<>>
    /\ pc = "idle"
    /\ procs = <<>>
    /\ markerFile = NoFile
    /\ r2Mounted = FALSE
    /\ currentFingerprint = <<>>
    /\ storedFingerprint = Unread
    /\ existingProcess = 0
    /\ process = 0
    /\ caught = "none"
    /\ outcome = NoOutcome
    /\ calls = <<>>
    /\ prev = NoPrev

Init ==
    /\ SupInit
    /\ fingerprints = <<>>
    /\ NoRestoreState
    /\ NoFindState
    /\ NoSyncState
    /\ NoRedactState
    /\ NoBootState
    /\ NoExtraState

Next ==
    \/ \E e \in SupSnapshots : Begin(e)
    \/ Finish
    \/ \E credentials, attemptOk \in BOOLEAN : Mount(credentials, attemptOk)
    \/ \E ok \in BOOLEAN : SetEnvVars(ok)
    \/ \E ok \in BOOLEAN : FindExisting(ok)
    \/ \E ok \in BOOLEAN : ReadMarker(ok)
    \/ \E ok \in BOOLEAN : KillChanged(ok)
    \/ \E ok \in BOOLEAN : ProbeExisting(ok)
    \/ \E ok \in BOOLEAN : KillWedged(ok)
    \/ \E ok \in BOOLEAN : WriteMarker(ok)
    \/ \E ok \in BOOLEAN : StartProcess(ok)
    \/ \E ok \in BOOLEAN : ProbeNew(ok)
    \/ \E ok \in BOOLEAN : LogsReady(ok)
    \/ \E ok \in BOOLEAN : LogsFailed(ok)
    \/ \E pid \in 1..MaxProcs, status \in Statuses : StatusChange(pid, status)
    \/ ContainerReset

Spec == Init /\ [][Next]_vars

\* the same supervisor, its process table also telling what each process
\* was launched with
LaunchNext ==
    \/ \E e \in SupSnapshots : Begin(e)
    \/ Finish
    \/ \E credentials, attemptOk \in BOOLEAN : Mount(credentials, attemptOk)
    \/ \E ok \in BOOLEAN : SetEnvVars(ok)
    \/ \E ok \in BOOLEAN : FindExisting(ok)
    \/ \E ok \in BOOLEAN : ReadMarker(ok)
    \/ \E ok \in BOOLEAN : KillChanged(ok)
    \/ \E ok \in BOOLEAN : ProbeExisting(ok)
    \/ \E ok \in BOOLEAN : KillWedged(ok)
    \/ \E ok \in BOOLEAN : WriteMarker(ok)
    \/ \E ok \in BOOLEAN : StartProcessWithEnv(ok)
    \/ \E ok \in BOOLEAN : ProbeNew(ok)
    \/ \E ok \in BOOLEAN : LogsReady(ok)
    \/ \E ok \in BOOLEAN : LogsFailed(ok)
    \/ \E pid \in 1..MaxProcs, status \in Statuses : StatusChange(pid, status)
    \/ ContainerReset

LaunchSpec == Init /\ [][LaunchNext]_vars

(***************************************************************************)
(* Two invocations of ensureMoltbotGateway on one sandbox.  Each has its   *)
(* own locals; the process table and the marker file are the sandbox's.    *)
(* An invocation yields at every await, so a step is one awaited call.     *)
(***************************************************************************)
Invocations == {"first", "second"}

\* the locals of an invocation; listOk tells whether its listProcesses
\* call resolved
Frame(position, listOk, existing, new, e, result) ==
    [pc |-> position, listOk |-> listOk, existingProcess |-> existing,
     process |-> new, caught |-> e, outcome |-> result]

NoFrame == Frame("idle", FALSE, 0, 0, "none", NoOutcome)

\* what one awaited call of an invocation leaves: its locals, the process
\* table and the marker file (lines 75-172; fp is currentFingerprint)
Advance(f, table, marker, fp, ok) ==
    LET same(g) == [frame |-> g, procs |-> table, markerFile |-> marker] IN
    CASE f.pc = "find" ->
           LET e == findExistingMoltbotProcess(table, ok) IN
           same([f EXCEPT !.existingProcess = e, !.listOk = ok,
                          !.pc = IF e # 0 THEN "readMarker" ELSE "writeMarker"])
      [] f.pc = "readMarker" ->
           same([f EXCEPT !.pc = IF envChanged(ok, marker, fp)
                                 THEN "killChanged" ELSE "probeExisting"])
      [] f.pc \in {"killChanged", "killWedged"} ->
           [frame |-> [f EXCEPT !.pc = "writeMarker"],
            procs |-> KillProcess(table, f.existingProcess, ok),
            markerFile |-> marker]
      [] f.pc = "probeExisting" ->
           same(IF ok
                THEN [f EXCEPT !.pc = "returned",
                               !.outcome = Ready(f.existingProcess)]
                ELSE [f EXCEPT !.pc = "killWedged"])
      [] f.pc = "writeMarker" ->
           [frame |-> [f EXCEPT !.pc = "startProcess"],
            procs |-> table,
            markerFile |-> IF ok THEN EchoTo(fp) ELSE marker]
      [] f.pc = "startProcess" ->
           IF ok
           THEN [frame |-> [f EXCEPT !.pc = "probeNew",
                                     !.process = Len(table) + 1],
                 procs |-> Append(table, [command |-> GatewayCommand,
                                          status |-> "starting"]),
                 markerFile |-> marker]
           ELSE same([f EXCEPT !.pc = "threw", !.outcome = Failed("startErr")])
      [] f.pc = "probeNew" ->
           same(IF ok
                THEN [f EXCEPT !.pc = "logsReady"]
                ELSE [f EXCEPT !.pc = "logsFailed", !.caught = "probeTimeout"])
      [] f.pc = "logsReady" ->
           same(IF ok
                THEN [f EXCEPT !.pc = "returned", !.outcome = Ready(f.process)]
                ELSE [f EXCEPT !.pc = "logsFailed", !.caught = "logsErr"])
      [] f.pc = "logsFailed" ->
           same([f EXCEPT !.pc = "threw",
                          !.outcome = Failed(RaisedFromCatch(f.caught, ok))])

raceFrame ==
    UNCHANGED << env, pc, r2Mounted, currentFingerprint, storedFingerprint,
                 existingProcess, process, caught, outcome, calls, prev,
                 fingerprints, restoreVars, findVars, syncVars, redactVars,
                 bootVars, envVars, lifeVars >>

\* RaceBegin behind a single-flight guard
RaceBegin_SingleFlight(i) ==
    /\ frames[i].pc = "idle"
    /\ \A j \in Invocations \ {i} : frames[j].pc \in {"idle", "returned", "threw"}
    /\ frames' = [frames EXCEPT ![i].pc = "find"]
    /\ UNCHANGED << procs, markerFile >>
    /\ raceFrame

\* lines 55-72: a caller invokes ensureMoltbotGateway; with no R2
\* credentials in env the mount does nothing, setEnvVars and the fingerprint
\* touch neither the process table nor the marker
RaceBegin(i) ==
    /\ frames[i].pc = "idle"
    /\ frames' = [frames EXCEPT ![i].pc = "find"]
    /\ UNCHANGED << procs, markerFile >>
    /\ raceFrame

\* the awaited call invocation i is waiting for settles
RaceStep(i, ok) ==
    /\ frames[i].pc \notin {"idle", "returned", "threw"}
    /\ LET after == Advance(frames[i], procs, markerFile,
                            getEnvFingerprint(env), ok)
       IN  /\ frames' = [frames EXCEPT ![i] = after.frame]
           /\ procs' = after.procs
           /\ markerFile' = after.markerFile
    /\ raceFrame

RaceInit ==
    /\ env \in SupSnapshots
    /\ pc = "idle"
    /\ procs = <<>>
    /\ markerFile = NoFile
    /\ r2Mounted = FALSE
    /\ currentFingerprint = <<>>
    /\ storedFingerprint = Unread
    /\ existingProcess = 0
    /\ process = 0
    /\ caught = "none"
    /\ outcome = NoOutcome
    /\ calls = <<>>
    /\ prev = NoPrev
    /\ fingerprints = <<>>
    /\ NoRestoreState
    /\ NoFindState
    /\ NoSyncState
    /\ NoRedactState
    /\ NoBootState
    /\ envVars = <<>>
    /\ frames = [i \in Invocations |-> NoFrame]
    /\ NoLifeState

RaceNext ==
    \/ \E i \in Invocations : RaceBegin(i)
    \/ \E i \in Invocations, ok \in BOOLEAN : RaceStep(i, ok)

RaceSpec == RaceInit /\ [][RaceNext]_vars

TypeOK ==
    /\ pc \in {"idle", "mount", "setEnvVars", "find", "readMarker",
               "killChanged", "probeExisting", "killWedged", "writeMarker",
               "startProcess", "probeNew", "logsReady", "logsFailed",
               "returned", "threw"}
    /\ Len(procs) <= MaxProcs
    /\ existingProcess \in 0..Len(procs)
    /\ process \in 0..Len(procs)
    /\ outcome.kind \in {"none", "ready", "failed"}

(***************************************************************************)
(* getEnvFingerprint on its own: every snapshot of at most MaxEntries      *)
(* properties over the 27 recognized keys.                                 *)
(***************************************************************************)
ComputeFingerprint ==
    /\ Len(fingerprints) < MaxCalls
    /\ fingerprints' = Append(fingerprints, getEnvFingerprint(env))
    /\ UNCHANGED << supVars, restoreVars, findVars, syncVars, redactVars,
                    bootVars, extraVars >>

FpInit ==
    /\ env \in Snapshots(KeyNames, MaxEntries)
    /\ pc = "idle"
    /\ procs = <<>>
    /\ markerFile = NoFile
    /\ r2Mounted = FALSE
    /\ currentFingerprint = <<>>
    /\ storedFingerprint = Unread
    /\ existingProcess = 0
    /\ process = 0
    /\ caught = "none"
    /\ outcome = NoOutcome
    /\ calls = <<>>
    /\ prev = NoPrev
    /\ fingerprints = <<>>
    /\ NoRestoreState
    /\ NoFindState
    /\ NoSyncState
    /\ NoRedactState
    /\ NoBootState
    /\ NoExtraState

FpNext == ComputeFingerprint

FpSpec == FpInit /\ [][FpNext]_vars

(***************************************************************************)
(* The launch environment: ensureMoltbotGateway builds the variables of    *)
(* the process (line 63) and fingerprints the same snapshot (line 72).     *)
(***************************************************************************)
BuildEnvVars ==
    /\ envVars = <<>>
    /\ envVars' = << buildEnvVars(env) >>
    /\ UNCHANGED << supVars, fingerprints, restoreVars, findVars, syncVars,
                    redactVars, bootVars, frames, lifeVars >>

EnvInit ==
    /\ env \in LaunchSnapshots
    /\ pc = "idle"
    /\ procs = <<>>
    /\ markerFile = NoFile
    /\ r2Mounted = FALSE
    /\ currentFingerprint = <<>>
    /\ storedFingerprint = Unread
    /\ existingProcess = 0
    /\ process = 0
    /\ caught = "none"
    /\ outcome = NoOutcome
    /\ calls = <<>>
    /\ prev = NoPrev
    /\ fingerprints = <<>>
    /\ NoRestoreState
    /\ NoFindState
    /\ NoSyncState
    /\ NoRedactState
    /\ NoBootState
    /\ NoExtraState

EnvNext ==
    \/ BuildEnvVars
    \/ ComputeFingerprint

EnvSpec == EnvInit /\ [][EnvNext]_vars

(***************************************************************************)
(* should_restore_from_r2 on its own: every pair of marker files.          *)
(***************************************************************************)
ShouldRestore ==
    /\ restoreDecision = NoDecision
    /\ restoreDecision' =
           should_restore_from_r2(r2SyncFile, localSyncFile, todayMidnight)
    /\ UNCHANGED << supVars, fingerprints, r2SyncFile, localSyncFile,
                    todayMidnight, findVars, syncVars, redactVars, bootVars, extraVars >>

RestoreInit ==
    /\ SupInit
    /\ fingerprints = <<>>
    /\ r2SyncFile \in SyncFiles
    /\ localSyncFile \in SyncFiles
    /\ todayMidnight \in 1..MaxTime
    /\ restoreDecision = NoDecision
    /\ NoFindState
    /\ NoSyncState
    /\ NoRedactState
    /\ NoBootState
    /\ NoExtraState

RestoreNext == ShouldRestore

RestoreSpec == RestoreInit /\ [][RestoreNext]_vars

(***************************************************************************)
(* findExistingMoltbotProcess on its own: every process table of at most   *)
(* MaxProcs processes over the commands and statuses above.                *)
(***************************************************************************)
ProcessTables ==
    UNION {[1..n -> [command : Commands, status : Statuses]] : n \in 0..MaxProcs}

\* lines 16-41; listOk is whether sandbox.listProcesses() resolves
Find(listOk) ==
    /\ found = NotCalled
    /\ found' = findExistingMoltbotProcess(procs, listOk)
    /\ UNCHANGED << supVars, fingerprints, restoreVars, syncVars, redactVars,
                    bootVars, extraVars >>

FindInit ==
    /\ env = <<>>
    /\ pc = "idle"
    /\ procs \in ProcessTables
    /\ markerFile = NoFile
    /\ r2Mounted = FALSE
    /\ currentFingerprint = <<>>
    /\ storedFingerprint = Unread
    /\ existingProcess = 0
    /\ process = 0
    /\ caught = "none"
    /\ outcome = NoOutcome
    /\ calls = <<>>
    /\ prev = NoPrev
    /\ fingerprints = <<>>
    /\ NoRestoreState
    /\ NoFindState
    /\ NoSyncState
    /\ NoRedactState
    /\ NoBootState
    /\ NoExtraState

FindNext == \E listOk \in BOOLEAN : Find(listOk)

FindSpec == FindInit /\ [][FindNext]_vars

(***************************************************************************)
(* syncToR2 and syncToGitHub (gateway/sync.ts), one action per sandbox     *)
(* command: startProcess, waitForProcess and getLogs of that command.      *)
(***************************************************************************)
\* what the two operations leave alone everywhere
syncFrame ==
    UNCHANGED << env, pc, procs, markerFile, currentFingerprint,
                 storedFingerprint, existingProcess, process, caught, outcome,
                 calls, prev, fingerprints, localSyncFile, todayMidnight,
                 restoreDecision, findVars, redactVars, bootVars, extraVars >>

\* something the invocation started: a mount, a sandbox process, and, inside
\* the process, an rsync, a `date >`, a git commit or a git push
Step(op, arg, result) == [op |-> op, arg |-> arg, result |-> result]

Started(op, arg) ==
    \E i \in DOMAIN syncSteps : syncSteps[i].op = op /\ syncSteps[i].arg = arg

StartedAny(op) == \E i \in DOMAIN syncSteps : syncSteps[i].op = op

\* waitForProcess (gateway/utils.ts) resolves when the process has ended or
\* when its timeout has passed.  The stdout read afterwards is all of it
\* when the process has ended; a process still running has not reached the
\* echo that ends its command
waitForProcess(ended, printed) == IF ended THEN printed ELSE <<>>

R2Keys == {"R2_ACCESS_KEY_ID", "R2_SECRET_ACCESS_KEY", "CF_ACCOUNT_ID"}

ConfigFiles == {"openclaw.json", "clawdbot.json"}

\* line 39 with any one key being enough
R2Configured_AnyKey(credentials) == credentials # {}

\* line 39
R2Configured(credentials) == R2Keys \subseteq credentials

StdoutOk == <<"o","k","\n">>
P_ok == <<"o","k">>

\* line 52 with the test left out
CheckStdout_NoTest(config) == StdoutOk

\* line 52: (test -f openclaw.json || test -f clawdbot.json) && echo "ok"
CheckStdout(config) == IF config # {} THEN StdoutOk ELSE <<>>

RsyncResults == {"ok", "failed", "hung"}

\* line 77: A 2>/dev/null || B && C && date -Iseconds > .last-sync, which
\* the shell groups as ((A || B) && C) && date.  Each rsync ends with status
\* 0 ("ok"), ends with another status having copied anything from nothing
\* to almost everything ("failed"), or is still running when the caller
\* stops waiting ("hung").  The result is the steps taken and the marker.
syncCmd(rOpenclaw, rClawdbot, rWorkspace, dateOk, t, marker) ==
    LET a == << Step("rsync", "openclaw", rOpenclaw) >>
        b == IF rOpenclaw = "failed"
             THEN << Step("rsync", "clawdbot", rClawdbot) >> ELSE <<>>
        configDone == rOpenclaw = "ok" \/ (rOpenclaw = "failed" /\ rClawdbot = "ok")
        c == IF configDone
             THEN << Step("rsync", "workspace", rWorkspace) >> ELSE <<>>
        d == IF configDone /\ rWorkspace = "ok"
             THEN << Step("date", ".last-sync", IF dateOk THEN "ok" ELSE "failed") >>
             ELSE <<>>
    IN  [steps |-> a \o b \o c \o d,
         marker |-> IF configDone /\ rWorkspace = "ok" /\ dateOk
                    THEN IsoText(t) ELSE marker]

\* line 90: lastSync && lastSync.match(/^\d{4}-\d{2}-\d{2}/)
LooksLikeDate(text) == text.kind = "iso"

\* lines 85-88: stdout of `cat .last-sync`, trimmed; nothing when the file
\* is missing or the process has not ended
CatLastSync(ended, file) == IF ended THEN file ELSE NoSyncFile

Return(result) ==
    /\ syncResult' = result
    /\ syncPc' = "done"

\* lines 37-41
SyncToR2(credentials) ==
    /\ syncPc = "idle"
    /\ now < MaxTime
    /\ now' = now + 1
    /\ syncSteps' = <<>>
    /\ markerBefore' = r2SyncFile
    /\ syncOp' = "syncToR2"
    /\ syncEnv' = Credentials(credentials, FALSE)
    /\ IF R2Configured(credentials)
       THEN /\ syncPc' = "r2:mount"
            /\ syncResult' = NoResult
       ELSE Return(SyncResult(FALSE, "R2 storage is not configured", "", 0))
    /\ UNCHANGED << r2Mounted, r2SyncFile, localConfig, localWorkspace, repo,
                    workTree, lastBackup >>
    /\ syncFrame

\* lines 44-47
R2Mount(attemptOk) ==
    /\ syncPc = "r2:mount"
    /\ LET m == mountR2Storage(TRUE, r2Mounted, attemptOk) IN
        /\ r2Mounted' = m.mounted
        /\ syncSteps' = Append(syncSteps,
               Step("mount", "r2", IF m.result THEN "ok" ELSE "failed"))
        /\ IF m.result
           THEN /\ syncPc' = "r2:check"
                /\ syncResult' = syncResult
           ELSE Return(SyncResult(FALSE, "Failed to mount R2 storage", "", 0))
    /\ UNCHANGED << r2SyncFile, now, localConfig, localWorkspace, markerBefore,
                    repo, workTree, lastBackup, syncOp, syncEnv >>
    /\ syncFrame

\* lines 51-68
R2Check(startOk, ended, logsOk) ==
    /\ syncPc = "r2:check"
    /\ IF ~startOk
       THEN /\ syncSteps' = syncSteps
            /\ Return(SyncResult(FALSE, "Failed to verify source files", "err", 0))
       ELSE /\ syncSteps' = Append(syncSteps, Step("startProcess", "check", "ok"))
            /\ IF ~logsOk
               THEN Return(SyncResult(FALSE, "Failed to verify source files",
                                      "err", 0))
               ELSE IF Includes(waitForProcess(ended, CheckStdout(localConfig)),
                                P_ok)
                    THEN /\ syncPc' = "r2:sync"
                         /\ syncResult' = syncResult
                    ELSE Return(SyncResult(FALSE,
                            "Sync aborted: source missing config file",
                            "missing", 0))
    /\ UNCHANGED << r2Mounted, r2SyncFile, now, localConfig, localWorkspace,
                    markerBefore, repo, workTree, lastBackup, syncOp, syncEnv >>
    /\ syncFrame

\* lines 79-81 (and the catch of line 100 for a rejected startProcess)
R2Sync(startOk, rOpenclaw, rClawdbot, rWorkspace, dateOk) ==
    /\ syncPc = "r2:sync"
    /\ IF ~startOk
       THEN /\ syncSteps' = syncSteps
            /\ r2SyncFile' = r2SyncFile
            /\ Return(SyncResult(FALSE, "Sync error", "err", 0))
       ELSE LET run == syncCmd(rOpenclaw, rClawdbot, rWorkspace, dateOk, now,
                               r2SyncFile)
            IN  /\ syncSteps' = (Append(syncSteps,
                                        Step("startProcess", "sync", "ok")))
                                \o run.steps
                /\ r2SyncFile' = run.marker
                /\ syncPc' = "r2:timestamp"
                /\ syncResult' = syncResult
    /\ UNCHANGED << r2Mounted, now, localConfig, localWorkspace, markerBefore,
                    repo, workTree, lastBackup, syncOp, syncEnv >>
    /\ syncFrame

\* lines 85-92 (and the catch of line 100)
R2Timestamp(startOk, ended, logsOk) ==
    /\ syncPc = "r2:timestamp"
    /\ IF ~startOk
       THEN /\ syncSteps' = syncSteps
            /\ Return(SyncResult(FALSE, "Sync error", "err", 0))
       ELSE /\ syncSteps' = Append(syncSteps, Step("startProcess", "cat", "ok"))
            /\ IF ~logsOk
               THEN Return(SyncResult(FALSE, "Sync error", "err", 0))
               ELSE IF LooksLikeDate(CatLastSync(ended, r2SyncFile))
                    THEN Return(SyncResult(TRUE, "", "", r2SyncFile.epoch))
                    ELSE /\ syncPc' = "r2:logs"
                         /\ syncResult' = syncResult
    /\ UNCHANGED << r2Mounted, r2SyncFile, now, localConfig, localWorkspace,
                    markerBefore, repo, workTree, lastBackup, syncOp, syncEnv >>
    /\ syncFrame

\* lines 93-98 (and the catch of line 100 for a rejected getLogs)
R2Logs(logsOk) ==
    /\ syncPc = "r2:logs"
    /\ IF logsOk
       THEN Return(SyncResult(FALSE, "Sync failed", "logs", 0))
       ELSE Return(SyncResult(FALSE, "Sync error", "err", 0))
    /\ UNCHANGED << r2Mounted, r2SyncFile, syncSteps, now, localConfig,
                    localWorkspace, markerBefore, repo, workTree, lastBackup, syncOp, syncEnv >>
    /\ syncFrame

(***************************************************************************)
(* syncToGitHub                                                            *)
(***************************************************************************)
Out_SETUP_OK == <<"S","E","T","U","P","_","O","K","\n">>
Out_COPY_OK == <<"C","O","P","Y","_","O","K","\n">>
Out_NO_CHANGES == <<"N","O","_","C","H","A","N","G","E","S","\n">>
Out_PUSH_OK == <<"P","U","S","H","_","O","K","\n">>
Out_fatal == <<"f","a","t","a","l",":"," ","f","a","i","l","e","d","\n">>
Out_committed == <<"1"," ","f","i","l","e"," ","c","h","a","n","g","e","d","\n">>
Out_pushed == <<"a",".",".","b"," "," ","m","a","i","n"," ","-",">"," ","m","a","i","n","\n">>
P_SETUP_OK == <<"S","E","T","U","P","_","O","K">>
P_COPY_OK == <<"C","O","P","Y","_","O","K">>
P_NO_CHANGES == <<"N","O","_","C","H","A","N","G","E","S">>
P_PUSH_OK == <<"P","U","S","H","_","O","K">>
P_main_main == <<"m","a","i","n"," ","-",">"," ","m","a","i","n">>

\* lines 136-154: with a clone the script pulls (|| true); without one it
\* clones, or failing that makes the directory and runs git init; gitOk is
\* whether the clone or the init works.  `echo "SETUP_OK"` is the last line
\* and depends on nothing before it.
setupCmd(r, gitOk) ==
    [repo |-> [r EXCEPT !.cloned = r.cloned \/ gitOk],
     result |-> IF r.cloned \/ gitOk THEN "ok" ELSE "failed",
     stdout |-> (IF r.cloned \/ gitOk THEN <<>> ELSE Out_fatal) \o Out_SETUP_OK]

\* lines 169-229: the workspace and the config are copied over the working
\* tree, BACKUP_TIMESTAMP.txt is rewritten with the instant of this
\* invocation
copyCmd(workspace, timestamp) ==
    [tree |-> Tree(workspace, timestamp), stdout |-> Out_COPY_OK]

\* lines 244-259: git add -A; if the index equals HEAD, NO_CHANGES;
\* otherwise commit, branch -M, push, and `echo "PUSH_OK"` whatever the
\* three did.  A git add that fails leaves the index as HEAD.  Without a
\* repository every git command fails, the test of line 251 included.
\* pushResult "hung" is a push still running when the caller stops waiting.
pushCmd(r, tree, addOk, commitOk, pushResult) ==
    LET index == IF addOk THEN tree ELSE r.head
        add == << Step("git", "add",
                       IF r.cloned /\ addOk THEN "ok" ELSE "failed") >>
    IN
    IF r.cloned /\ index = r.head
    THEN [repo |-> r, steps |-> add, stdout |-> Out_NO_CHANGES]
    ELSE LET committed == r.cloned /\ commitOk
             afterCommit ==
                 IF committed
                 THEN [r EXCEPT !.head = index, !.changesets = r.changesets + 1]
                 ELSE r
             pushed == r.cloned /\ pushResult = "ok"
         IN  [repo |-> IF pushed
                       THEN [afterCommit EXCEPT !.pushed = afterCommit.changesets]
                       ELSE afterCommit,
              steps |-> add \o
                        << Step("git", "commit",
                                IF committed THEN "ok" ELSE "failed"),
                           Step("git", "push",
                                IF pushed THEN "ok"
                                ELSE IF pushResult = "hung" THEN "hung"
                                ELSE "failed") >>,
              stdout |-> (IF committed THEN Out_committed ELSE Out_fatal)
                         \o (IF pushResult = "hung" THEN <<>>
                             ELSE (IF pushed THEN Out_pushed ELSE Out_fatal)
                                  \o Out_PUSH_OK)]

\* lines 126-132
SyncToGitHub(token) ==
    /\ syncPc = "idle"
    /\ now < MaxTime
    /\ now' = now + 1
    /\ syncSteps' = <<>>
    /\ markerBefore' = r2SyncFile
    /\ syncOp' = "syncToGitHub"
    /\ syncEnv' = Credentials({}, token)
    /\ IF token
       THEN /\ syncPc' = "gh:setup"
            /\ syncResult' = NoResult
       ELSE Return(SyncResult(FALSE, "GITHUB_TOKEN not configured", "", 0))
    /\ UNCHANGED << r2Mounted, r2SyncFile, localConfig, localWorkspace, repo,
                    workTree, lastBackup >>
    /\ syncFrame

\* lines 156-166 (and the catch of line 285)
GitSetup(startOk, ended, logsOk, gitOk) ==
    /\ syncPc = "gh:setup"
    /\ IF ~startOk
       THEN /\ syncSteps' = syncSteps
            /\ repo' = repo
            /\ Return(SyncResult(FALSE, "GitHub sync error", "err", 0))
       ELSE LET run == setupCmd(repo, gitOk) IN
            /\ syncSteps' = syncSteps \o
                   << Step("startProcess", "setup", "ok"),
                      Step("git", "setup", IF ended THEN run.result ELSE "hung") >>
            /\ repo' = IF ended THEN run.repo ELSE repo
            /\ IF ~logsOk
               THEN Return(SyncResult(FALSE, "GitHub sync error", "err", 0))
               ELSE IF Includes(waitForProcess(ended, run.stdout), P_SETUP_OK)
                    THEN /\ syncPc' = "gh:copy"
                         /\ syncResult' = syncResult
                    ELSE Return(SyncResult(FALSE, "Failed to setup git repo",
                                           "logs", 0))
    /\ UNCHANGED << r2Mounted, r2SyncFile, now, localConfig, localWorkspace,
                    markerBefore, workTree, lastBackup, syncOp, syncEnv >>
    /\ syncFrame

\* GitCopy whose command also runs `date -Iseconds > $R2/.last-sync`
GitCopy_WritesMarker(startOk, ended, logsOk) ==
    /\ syncPc = "gh:copy"
    /\ r2SyncFile' = IF startOk /\ ended THEN IsoText(now) ELSE r2SyncFile
    /\ IF ~startOk
       THEN /\ syncSteps' = syncSteps
            /\ workTree' = workTree
            /\ Return(SyncResult(FALSE, "GitHub sync error", "err", 0))
       ELSE LET run == copyCmd(localWorkspace, now) IN
            /\ syncSteps' = Append(syncSteps, Step("startProcess", "copy", "ok"))
            /\ workTree' = IF ended THEN run.tree ELSE workTree
            /\ IF ~logsOk
               THEN Return(SyncResult(FALSE, "GitHub sync error", "err", 0))
               ELSE IF Includes(waitForProcess(ended, run.stdout), P_COPY_OK)
                    THEN /\ syncPc' = "gh:push"
                         /\ syncResult' = syncResult
                    ELSE Return(SyncResult(FALSE, "Failed to copy files",
                                           "logs", 0))
    /\ UNCHANGED << r2Mounted, now, localConfig, localWorkspace,
                    markerBefore, repo, lastBackup, syncOp, syncEnv >>
    /\ syncFrame

\* lines 231-241 (and the catch of line 285)
GitCopy(startOk, ended, logsOk) ==
    /\ syncPc = "gh:copy"
    /\ IF ~startOk
       THEN /\ syncSteps' = syncSteps
            /\ workTree' = workTree
            /\ Return(SyncResult(FALSE, "GitHub sync error", "err", 0))
       ELSE LET run == copyCmd(localWorkspace, now) IN
            /\ syncSteps' = Append(syncSteps, Step("startProcess", "copy", "ok"))
            /\ workTree' = IF ended THEN run.tree ELSE workTree
            /\ IF ~logsOk
               THEN Return(SyncResult(FALSE, "GitHub sync error", "err", 0))
               ELSE IF Includes(waitForProcess(ended, run.stdout), P_COPY_OK)
                    THEN /\ syncPc' = "gh:push"
                         /\ syncResult' = syncResult
                    ELSE Return(SyncResult(FALSE, "Failed to copy files",
                                           "logs", 0))
    /\ UNCHANGED << r2Mounted, r2SyncFile, now, localConfig, localWorkspace,
                    markerBefore, repo, lastBackup, syncOp, syncEnv >>
    /\ syncFrame

\* lines 261-283 (and the catch of line 285)
GitPush(startOk, logsOk, addOk, commitOk, pushResult) ==
    /\ syncPc = "gh:push"
    /\ IF ~startOk
       THEN /\ syncSteps' = syncSteps
            /\ repo' = repo
            /\ Return(SyncResult(FALSE, "GitHub sync error", "err", 0))
       ELSE LET run == pushCmd(repo, workTree, addOk, commitOk, pushResult)
                pushOutput == run.stdout
            IN
            /\ syncSteps' = (Append(syncSteps,
                                    Step("startProcess", "push", "ok")))
                            \o run.steps
            /\ repo' = run.repo
            /\ IF ~logsOk
               THEN Return(SyncResult(FALSE, "GitHub sync error", "err", 0))
               ELSE IF Includes(pushOutput, P_NO_CHANGES)
                    THEN Return(SyncResult(TRUE, "", "No changes to backup", now))
                    ELSE IF \/ Includes(pushOutput, P_PUSH_OK)
                            \/ Includes(pushOutput, P_main_main)
                         THEN Return(SyncResult(TRUE, "", "", now))
                         ELSE Return(SyncResult(FALSE,
                                 "Failed to push to GitHub", "logs", 0))
    /\ UNCHANGED << r2Mounted, r2SyncFile, now, localConfig, localWorkspace,
                    markerBefore, workTree, lastBackup, syncOp, syncEnv >>
    /\ syncFrame

\* the caller has the result; a successful syncToGitHub is remembered
SyncDone ==
    /\ syncPc = "done"
    /\ syncPc' = "idle"
    /\ lastBackup' = IF syncOp = "syncToGitHub" /\ syncResult.success
                     THEN [workspace |-> localWorkspace,
                           changesets |-> repo.changesets,
                           pushed |-> repo.pushed]
                     ELSE lastBackup
    /\ UNCHANGED << r2Mounted, r2SyncFile, syncResult, syncSteps, now,
                    localConfig, localWorkspace, markerBefore, repo, workTree,
                    syncOp, syncEnv >>
    /\ syncFrame

\* the bot writes to /root/clawd between two backups
WorkspaceEdit ==
    /\ syncPc = "idle"
    /\ localWorkspace <= MaxCalls
    /\ localWorkspace' = localWorkspace + 1
    /\ UNCHANGED << r2Mounted, r2SyncFile, syncPc, syncResult, syncSteps, now,
                    localConfig, markerBefore, repo, workTree, lastBackup,
                    syncOp, syncEnv >>
    /\ syncFrame

SyncInit ==
    /\ SupInit
    /\ fingerprints = <<>>
    /\ localSyncFile = NoSyncFile
    /\ todayMidnight = 1
    /\ restoreDecision = NoDecision
    /\ NoFindState
    /\ r2SyncFile \in {NoSyncFile, IsoText(1)}
    /\ syncPc = "idle"
    /\ syncOp = "none"
    /\ syncEnv = NoCredentials
    /\ syncResult = NoResult
    /\ syncSteps = <<>>
    /\ now = 1
    /\ localConfig \in SUBSET ConfigFiles
    /\ localWorkspace = 1
    /\ markerBefore = NoSyncFile
    /\ repo = NoRepo
    /\ workTree = NoTree
    /\ lastBackup = NoBackup
    /\ NoRedactState
    /\ NoBootState
    /\ NoExtraState

SyncNext ==
    \/ \E credentials \in SUBSET R2Keys : SyncToR2(credentials)
    \/ \E attemptOk \in BOOLEAN : R2Mount(attemptOk)
    \/ \E startOk, ended, logsOk \in BOOLEAN : R2Check(startOk, ended, logsOk)
    \/ \E startOk, dateOk \in BOOLEAN :
          \E rOpenclaw, rClawdbot, rWorkspace \in RsyncResults :
              R2Sync(startOk, rOpenclaw, rClawdbot, rWorkspace, dateOk)
    \/ \E startOk, ended, logsOk \in BOOLEAN :
          R2Timestamp(startOk, ended, logsOk)
    \/ \E logsOk \in BOOLEAN : R2Logs(logsOk)
    \/ \E token \in BOOLEAN : SyncToGitHub(token)
    \/ \E startOk, ended, logsOk, gitOk \in BOOLEAN :
          GitSetup(startOk, ended, logsOk, gitOk)
    \/ \E startOk, ended, logsOk \in BOOLEAN : GitCopy(startOk, ended, logsOk)
    \/ \E startOk, logsOk, addOk, commitOk \in BOOLEAN :
          \E pushResult \in RsyncResults :
              GitPush(startOk, logsOk, addOk, commitOk, pushResult)
    \/ SyncDone
    \/ WorkspaceEdit

SyncSpec == SyncInit /\ [][SyncNext]_vars

(***************************************************************************)
(* The config part of syncToGitHub's copy command (sync.ts lines 197-207). *)
(***************************************************************************)
\* the credential fields start-moltbot.sh and the providers put in the config
CredentialKeys == << "token", "apiKey", "botToken", "appToken" >>

KeyText ==
    [ k \in {CredentialKeys[i] : i \in DOMAIN CredentialKeys} |->
        CASE k = "token" -> <<"t","o","k","e","n">>
          [] k = "apiKey" -> <<"a","p","i","K","e","y">>
          [] k = "botToken" -> <<"b","o","t","T","o","k","e","n">>
          [] OTHER -> <<"a","p","p","T","o","k","e","n">> ]

\* credential values: digits, and digits around a ',' or a '}'
SecretDigits == {"7", "9"}
SecretValues == { <<"7","9">>, <<"7",",","9">>, <<"7","}","9">> }

Redacted == <<"[","R","E","D","A","C","T","E","D","]">>

Quote(text) == << "\"" >> \o text \o << "\"" >>

\* config objects of at most MaxEntries credential fields, in the order of
\* CredentialKeys
ConfigEntries == [key : DOMAIN CredentialKeys, value : SecretValues]

ConfigObjects ==
    UNION { { o \in [1..n -> ConfigEntries] :
                \A i \in 1..(n - 1) : o[i].key < o[i + 1].key } :
            n \in 1..MaxEntries }

\* JSON.stringify(config, null, 2) (start-moltbot.sh line 402): one field
\* per line, `"key": "value"`, fields separated by ",\n"
RECURSIVE StringifyFields(_, _)
StringifyFields(o, i) ==
    IF i > Len(o) THEN <<>>
    ELSE << " ", " " >> \o Quote(KeyText[CredentialKeys[o[i].key]])
         \o << ":", " " >> \o Quote(o[i].value)
         \o (IF i < Len(o) THEN << "," >> ELSE <<>>) \o << "\n" >>
         \o StringifyFields(o, i + 1)

Stringify(o) == << "{", "\n" >> \o StringifyFields(o, 1) \o << "}" >>

\* text has pattern at position i
MatchAt(text, i, pattern) ==
    /\ i + Len(pattern) - 1 <= Len(text)
    /\ SubSeq(text, i, i + Len(pattern) - 1) = pattern

\* [^,}]* from position i: the first position holding ',' or '}', or the
\* end of the line
RECURSIVE SkipValue(_, _)
SkipValue(text, i) ==
    IF i > Len(text) \/ text[i] \in {",", "}", "\n"} THEN i
    ELSE SkipValue(text, i + 1)

\* sed 's/"key":[^,}]*/"key":"[REDACTED]"/g' from position i on
RECURSIVE SedFrom(_, _, _)
SedFrom(text, key, i) ==
    LET pattern == Quote(KeyText[key]) \o << ":" >> IN
    IF i > Len(text) THEN <<>>
    ELSE IF MatchAt(text, i, pattern)
         THEN pattern \o Quote(Redacted)
              \o SedFrom(text, key, SkipValue(text, i + Len(pattern)))
         ELSE << text[i] >> \o SedFrom(text, key, i + 1)

\* lines 202 and 205: cat file | sed token | sed apiKey | sed botToken
RedactFile(text) ==
    SedFrom(SedFrom(SedFrom(text, "token", 1), "apiKey", 1), "botToken", 1)

\* lines 198-207: the files are copied to config/, then openclaw.json is
\* rewritten if it is there, and clawdbot.json only if openclaw.json is not
CopyAndRedact(dir) ==
    IF dir.openclaw # NoFile
    THEN Dir(RedactFile(dir.openclaw), dir.clawdbot)
    ELSE IF dir.clawdbot # NoFile
         THEN Dir(NoFile, RedactFile(dir.clawdbot))
         ELSE dir

CopyConfig ==
    /\ repoConfig = NoDir
    /\ configDir # NoDir
    /\ repoConfig' = CopyAndRedact(configDir)
    /\ UNCHANGED << supVars, fingerprints, restoreVars, findVars, syncVars,
                    configDir, bootVars, extraVars >>

ConfigTexts == {NoFile} \cup {Stringify(o) : o \in ConfigObjects}

RedactInit ==
    /\ SupInit
    /\ fingerprints = <<>>
    /\ NoRestoreState
    /\ NoFindState
    /\ NoSyncState
    /\ configDir \in {Dir(a, b) : a \in ConfigTexts, b \in ConfigTexts}
    /\ repoConfig = NoDir
    /\ NoBootState
    /\ NoExtraState

RedactNext == CopyConfig

RedactSpec == RedactInit /\ [][RedactNext]_vars

(***************************************************************************)
(* The restore part of start-moltbot.sh: config, then skills, then the     *)
(* workspace, each from its tree under $BACKUP_DIR.                        *)
(***************************************************************************)
StoreTrees == [Paths -> {Absent, "durable"}]
DiskTrees == [Paths -> {Absent, "local"}]

\* the markers a boot can find: none, or the instant of a backup
BootMarkers == {NoSyncFile} \cup {IsoText(t) : t \in 1..(MaxTime - 1)}

\* [ -f $BACKUP_DIR/openclaw/openclaw.json ] and its two older forms
HasConfigFile(tree) == tree["main"] # Absent

\* [ -d dir ] && [ "$(ls -A dir)" ]
NotEmpty(tree) == \E p \in Paths : tree[p] # Absent

\* `cp -a src/. dst/`: every file of src lands in dst, the other files of
\* dst stay
cp_a(src, dst) ==
    [p \in Paths |-> IF src[p] # Absent THEN src[p] ELSE dst[p]]

\* rsync that also passes --delete
rsync_a_Delete(src, dst) == src

\* `rsync -a --no-times src/ dst/`: every file of src lands in dst, the
\* other files of dst stay
rsync_a(src, dst) ==
    [p \in Paths |-> IF src[p] # Absent THEN src[p] ELSE dst[p]]

\* `cp -f $BACKUP_DIR/.last-sync $CONFIG_DIR/.last-sync 2>/dev/null || true`
CopyMarker(copied, from, to) == IF copied /\ from # NoSyncFile THEN from ELSE to

bootFrame ==
    UNCHANGED << supVars, fingerprints, r2SyncFile, todayMidnight,
                 restoreDecision, findVars, syncVars, redactVars, store,
                 diskBefore, extraVars >>

\* lines 141-177, $BACKUP_DIR being mounted: the config tree is the one of
\* the layout found (openclaw/, clawdbot/ or the flat one); the three
\* branches ask should_restore_from_r2 and copy with cp -a alike
RestoreConfig(copied) ==
    /\ bootPc = "config"
    /\ bootPc' = "skills"
    /\ IF ~HasConfigFile(store["config"])
       THEN /\ restored' = [restored EXCEPT !["config"] = "nothing"]
            /\ UNCHANGED << disk, localSyncFile >>
       ELSE IF should_restore_from_r2(r2SyncFile, localSyncFile, todayMidnight)
                   = RestoreYes
            THEN /\ disk' = [disk EXCEPT
                                !["config"] = cp_a(store["config"], @)]
                 /\ localSyncFile' = CopyMarker(copied, r2SyncFile, localSyncFile)
                 /\ restored' = [restored EXCEPT !["config"] = "restore"]
            ELSE /\ restored' = [restored EXCEPT !["config"] = "skip"]
                 /\ UNCHANGED << disk, localSyncFile >>
    /\ bootFrame

\* lines 179-188
RestoreSkills ==
    /\ bootPc = "skills"
    /\ bootPc' = "workspace"
    /\ IF ~NotEmpty(store["skills"])
       THEN /\ restored' = [restored EXCEPT !["skills"] = "nothing"]
            /\ UNCHANGED disk
       ELSE IF should_restore_from_r2(r2SyncFile, localSyncFile, todayMidnight)
                   = RestoreYes
            THEN /\ disk' = [disk EXCEPT
                                !["skills"] = cp_a(store["skills"], @)]
                 /\ restored' = [restored EXCEPT !["skills"] = "restore"]
            ELSE /\ restored' = [restored EXCEPT !["skills"] = "skip"]
                 /\ UNCHANGED disk
    /\ UNCHANGED localSyncFile
    /\ bootFrame

\* lines 197-211
RestoreWorkspace ==
    /\ bootPc = "workspace"
    /\ bootPc' = "template"
    /\ IF ~NotEmpty(store["workspace"])
       THEN /\ restored' = [restored EXCEPT !["workspace"] = "nothing"]
            /\ UNCHANGED disk
       ELSE /\ disk' = [disk EXCEPT
                           !["workspace"] = rsync_a(store["workspace"], @)]
            /\ restored' = [restored EXCEPT !["workspace"] = "restore"]
    /\ UNCHANGED localSyncFile
    /\ bootFrame

\* lines 213-236: a config file that still does not exist is created from
\* the template
CreateConfig ==
    /\ bootPc = "template"
    /\ bootPc' = "done"
    /\ disk' = IF HasConfigFile(disk["config"]) THEN disk
               ELSE [disk EXCEPT !["config"]["main"] = "template"]
    /\ UNCHANGED << localSyncFile, restored >>
    /\ bootFrame

BootInit ==
    /\ SupInit
    /\ fingerprints = <<>>
    /\ r2SyncFile \in BootMarkers
    /\ localSyncFile \in BootMarkers
    /\ todayMidnight = 1
    /\ restoreDecision = NoDecision
    /\ NoFindState
    /\ NoSyncState
    /\ NoRedactState
    /\ bootPc = "config"
    /\ store \in [Targets -> StoreTrees]
    /\ disk \in [Targets -> DiskTrees]
    /\ diskBefore = disk
    /\ restored = NothingRestored
    /\ NoExtraState

BootNext ==
    \/ \E copied \in BOOLEAN : RestoreConfig(copied)
    \/ RestoreSkills
    \/ RestoreWorkspace
    \/ CreateConfig

BootSpec == BootInit /\ [][BootNext]_vars

(***************************************************************************)
(* A container's life: the start script and syncToR2 on the same trees.    *)
(* Skills live in /root/clawd/skills, inside the workspace, and travel     *)
(* with it; $BACKUP_DIR/skills is written by nothing here and stays empty. *)
(***************************************************************************)
\* `rsync -r --no-times --delete src/ dst/`: dst becomes a copy of src
rsync_r_delete(src, dst) == src

lifeFrame ==
    UNCHANGED << supVars, fingerprints, todayMidnight, restoreDecision,
                 findVars, syncVars, redactVars, envVars, frames >>

\* the container starts start-moltbot.sh; lines 87-97 poll the mount table
\* five times and go on either way.  Without the mount $BACKUP_DIR is
\* empty and the three restore sections find nothing.
BootBegin(mounted) ==
    /\ bootPc = "off"
    /\ bootPc' = IF mounted THEN "config" ELSE "template"
    /\ restored' = IF mounted THEN NothingRestored
                   ELSE [t \in Targets |-> "nothing"]
    /\ diskBefore' = disk
    /\ storeAtBoot' = store
    /\ mirrorAtBoot' = mirrorPc
    /\ UNCHANGED << r2SyncFile, localSyncFile, store, disk, mirrorPc,
                    mirrorSuccess, bootAtMirror, diskAtSync, wiped >>
    /\ lifeFrame

\* sync.ts lines 38-47, the R2 credentials being set: the mount must show
MirrorBegin(mountOk) ==
    /\ mirrorPc = "idle"
    /\ bootAtMirror' = bootPc
    /\ diskAtSync' = disk
    /\ IF mountOk
       THEN /\ mirrorPc' = "check"
            /\ mirrorSuccess' = mirrorSuccess
       ELSE /\ mirrorPc' = "done"
            /\ mirrorSuccess' = "failure"
    /\ UNCHANGED << r2SyncFile, localSyncFile, bootVars, mirrorAtBoot,
                    storeAtBoot, wiped >>
    /\ lifeFrame

\* lines 49-68: test -f of the local config file
MirrorCheck ==
    /\ mirrorPc = "check"
    /\ IF HasConfigFile(disk["config"])
       THEN /\ mirrorPc' = "config"
            /\ mirrorSuccess' = mirrorSuccess
       ELSE /\ mirrorPc' = "done"
            /\ mirrorSuccess' = "failure"
    /\ UNCHANGED << r2SyncFile, localSyncFile, bootVars, bootAtMirror,
                    mirrorAtBoot, storeAtBoot, diskAtSync, wiped >>
    /\ lifeFrame

\* line 77, A || B: the transfer of /root/.openclaw and, when it fails,
\* that of /root/.clawdbot to its own directory of the store
MirrorConfig(rOpenclaw, rClawdbot) ==
    /\ mirrorPc = "config"
    /\ store' = IF rOpenclaw = "ok"
                THEN [store EXCEPT
                         !["config"] = rsync_r_delete(disk["config"], @)]
                ELSE store
    /\ mirrorPc' = IF rOpenclaw = "ok" \/ rClawdbot = "ok"
                   THEN "workspace" ELSE "readback"
    /\ UNCHANGED << r2SyncFile, localSyncFile, bootPc, disk, diskBefore,
                    restored, mirrorSuccess, bootAtMirror, mirrorAtBoot,
                    storeAtBoot, diskAtSync, wiped >>
    /\ lifeFrame

\* line 77, && C: the transfer of /root/clawd
MirrorWorkspace(rWorkspace) ==
    /\ mirrorPc = "workspace"
    /\ store' = IF rWorkspace = "ok"
                THEN [store EXCEPT
                         !["workspace"] = rsync_r_delete(disk["workspace"], @)]
                ELSE store
    /\ mirrorPc' = IF rWorkspace = "ok" THEN "date" ELSE "readback"
    /\ UNCHANGED << r2SyncFile, localSyncFile, bootPc, disk, diskBefore,
                    restored, mirrorSuccess, bootAtMirror, mirrorAtBoot,
                    storeAtBoot, diskAtSync, wiped >>
    /\ lifeFrame

\* line 77, && date -Iseconds > .last-sync: the instant of this sync is
\* later than that of any earlier one
MirrorDate(dateOk) ==
    /\ mirrorPc = "date"
    /\ r2SyncFile' = IF dateOk THEN IsoText(MaxTime) ELSE r2SyncFile
    /\ mirrorPc' = "readback"
    /\ UNCHANGED << localSyncFile, bootVars, mirrorSuccess, bootAtMirror,
                    mirrorAtBoot, storeAtBoot, diskAtSync, wiped >>
    /\ lifeFrame

\* lines 83-98: success is a .last-sync that reads as a date
MirrorReadback ==
    /\ mirrorPc = "readback"
    /\ mirrorSuccess' = IF LooksLikeDate(CatLastSync(TRUE, r2SyncFile))
                        THEN "success" ELSE "failure"
    /\ mirrorPc' = "done"
    /\ UNCHANGED << r2SyncFile, localSyncFile, bootVars, bootAtMirror,
                    mirrorAtBoot, storeAtBoot, diskAtSync, wiped >>
    /\ lifeFrame

\* the running gateway rewrites its config file
LocalEdit ==
    /\ bootPc = "off"
    /\ mirrorPc = "done"
    /\ ~wiped
    /\ HasConfigFile(disk["config"])
    /\ disk["config"]["main"] # "edited"
    /\ disk' = [disk EXCEPT !["config"]["main"] = "edited"]
    /\ UNCHANGED << r2SyncFile, localSyncFile, bootPc, store, diskBefore,
                    restored, lifeVars >>
    /\ lifeFrame

\* the container is replaced: its disk starts empty
Wipe ==
    /\ bootPc = "off"
    /\ mirrorPc = "done"
    /\ ~wiped
    /\ disk' = [t \in Targets |-> EmptyTree]
    /\ localSyncFile' = NoSyncFile
    /\ wiped' = TRUE
    /\ UNCHANGED << r2SyncFile, bootPc, store, diskBefore, restored,
                    mirrorPc, mirrorSuccess, bootAtMirror, mirrorAtBoot,
                    storeAtBoot, diskAtSync >>
    /\ lifeFrame

\* a local marker is a copy of an earlier marker of the store
LifeInit ==
    /\ SupInit
    /\ fingerprints = <<>>
    /\ r2SyncFile \in BootMarkers
    /\ localSyncFile \in BootMarkers
    /\ localSyncFile # NoSyncFile =>
           /\ r2SyncFile # NoSyncFile
           /\ localSyncFile.epoch <= r2SyncFile.epoch
    /\ todayMidnight = 1
    /\ restoreDecision = NoDecision
    /\ NoFindState
    /\ NoSyncState
    /\ NoRedactState
    /\ bootPc = "off"
    /\ store \in {t \in [Targets -> StoreTrees] : t["skills"] = EmptyTree}
    /\ disk \in {t \in [Targets -> DiskTrees] : t["skills"] = EmptyTree}
    /\ diskBefore = disk
    /\ restored = NothingRestored
    /\ NoExtraState

LifeNext ==
    \/ \E mounted \in BOOLEAN : BootBegin(mounted)
    \/ \E copied \in BOOLEAN : RestoreConfig(copied)
    \/ RestoreSkills
    \/ RestoreWorkspace
    \/ CreateConfig
    \/ \E mountOk \in BOOLEAN : MirrorBegin(mountOk)
    \/ MirrorCheck
    \/ \E rOpenclaw, rClawdbot \in {"ok", "failed"} :
          MirrorConfig(rOpenclaw, rClawdbot)
    \/ \E rWorkspace \in {"ok", "failed"} : MirrorWorkspace(rWorkspace)
    \/ \E dateOk \in BOOLEAN : MirrorDate(dateOk)
    \/ MirrorReadback
    \/ LocalEdit
    \/ Wipe

LifeSpec == LifeInit /\ [][LifeNext]_vars

(***************************************************************************)
(* Properties of the supervisor.                                           *)
(***************************************************************************)
Called(op) == \E i \in DOMAIN calls : calls[i].op = op

CalledOn(op, pid) ==
    \E i \in DOMAIN calls : calls[i].op = op /\ calls[i].pid = pid

Succeeded(op, pid) ==
    \E i \in DOMAIN calls : calls[i].op = op /\ calls[i].pid = pid /\ calls[i].ok

Rejected(op, pid) ==
    \E i \in DOMAIN calls : calls[i].op = op /\ calls[i].pid = pid /\ ~calls[i].ok

\* a call of op1 on pid1 precedes a call of op2
Before(op1, pid1, op2) ==
    \E i, j \in DOMAIN calls :
        /\ i < j
        /\ calls[i].op = op1 /\ calls[i].pid = pid1
        /\ calls[j].op = op2

\* the invocation found a gateway, read the marker and found it equal to
\* the fresh fingerprint, and its probe of that gateway succeeded
ReuseCase ==
    /\ Terminal
    /\ existingProcess # 0
    /\ storedFingerprint = currentFingerprint
    /\ Succeeded("waitForPort", existingProcess)

\* C1: Supervisor reuse.  When the invocation finds a gateway process, the
\* stored marker equals the freshly computed fingerprint and the readiness
\* probe of that process succeeds, it returns that same handle and has called
\* neither kill nor startProcess nor written the marker; the process table
\* and the marker file are as the invocation found them.
C1_SupervisorReuse ==
    ReuseCase =>
        /\ pc = "returned"
        /\ outcome = Ready(existingProcess)
        /\ ~Called("kill")
        /\ ~Called("startProcess")
        /\ ~Called("writeMarker")
        /\ procs[existingProcess].status \in {"starting", "running"}
        /\ Trim(CatStdout(markerFile)) = storedFingerprint

C1_Witness ==
    /\ ReuseCase
    /\ currentFingerprint # <<>>
    /\ outcome = Ready(existingProcess)

\* the invocation found a gateway and read a marker that differs from the
\* fresh fingerprint
ChangedCase ==
    /\ Terminal
    /\ existingProcess # 0
    /\ storedFingerprint # Unread
    /\ storedFingerprint # currentFingerprint

C3_UnreadableMarkerRestarts ==
    (Terminal /\ existingProcess # 0 /\ ~Called("writeMarker")
        /\ (markerFile = NoFile \/ Rejected("readMarker", existingProcess)))
    => /\ CalledOn("kill", existingProcess)
       /\ Called("startProcess")
       /\ outcome # Ready(existingProcess)

\* a recognized key was added to the snapshot since the previous invocation,
\* which returned a handle, and this invocation found that process
KeyAddedCase ==
    /\ Terminal
    /\ prev.handle # 0
    /\ existingProcess = prev.handle
    /\ \E k \in KeyNames \ prev.keys : PresentKeys(env) = prev.keys \cup {k}

C5_TwoTerminalOutcomes ==
    /\ ~Terminal => outcome = NoOutcome
    /\ pc = "returned" =>
          /\ outcome.kind = "ready"
          /\ outcome.handle \in DOMAIN procs
          /\ Succeeded("waitForPort", outcome.handle)
    /\ pc = "threw" =>
          /\ outcome.kind = "failed"
          /\ outcome.handle = 0
          /\ outcome.error # "none"
    /\ (Terminal /\ (Rejected("startProcess", 0)
                       \/ (process # 0 /\ Rejected("waitForPort", process)))) =>
          pc = "threw"

C5_Witness ==
    /\ pc = "threw"
    /\ process # 0
    /\ Rejected("waitForPort", process)
    /\ existingProcess # 0

\* C6 (as claimed): Diagnostic error on readiness timeout.  When the probe
\* of the newly launched process times out and getLogs then succeeds, the
\* error raised to the caller is the diagnostic error that embeds stderr,
\* not the probe's own timeout error.
C6_DiagnosticErrorOnTimeout ==
    (pc = "threw" /\ process # 0 /\ Rejected("waitForPort", process)
        /\ Succeeded("getLogs", process))
    => outcome.error = "diagnostic"

(***************************************************************************)
(* Properties of getEnvFingerprint.                                        *)
(***************************************************************************)
\* the recognized keys a snapshot carries with a non-empty value
NonEmptyKeys(snapshot) ==
    {k \in KeyNames :
        \E i \in DOMAIN snapshot :
            snapshot[i].key = k /\ Len(snapshot[i].value) > 0}

\* one fixed snapshot for a set of keys: the keys in the order of the code,
\* each with the same value
OneSnapshotOf(keys) ==
    LET chosen == SelectSeq(RecognizedKeys, LAMBDA k : k \in keys) IN
    [i \in DOMAIN chosen |-> [key |-> chosen[i], value |-> SecretA]]

\* C7: The fingerprint depends only on the set of present recognized keys.
\* Every call on a snapshot returns what getEnvFingerprint returns on the
\* one fixed snapshot of the same set of non-empty recognized keys; so any
\* two snapshots with the same set get the same string, whatever the order
\* of insertion and the values, and repeated calls agree.
C7_FingerprintOfKeySet ==
    fingerprints # <<>> =>
        LET one == getEnvFingerprint(OneSnapshotOf(NonEmptyKeys(env))) IN
        \A i \in DOMAIN fingerprints :
            /\ fingerprints[i] = one
            /\ fingerprints[i] = fingerprints[1]

\* two calls on a snapshot whose keys are inserted against the sorted order,
\* with values that differ from the fixed snapshot's, one of them empty
C7_Witness ==
    /\ Len(fingerprints) = 2
    /\ Len(env) = 2
    /\ env[1].key = "WORKER_URL" /\ env[1].value = SecretB
    /\ env[2].key = "DEV_MODE" /\ env[2].value = EmptyValue
    /\ fingerprints[1] = KeyChars["WORKER_URL"]

\* C8 (as claimed): The fingerprint never contains values.  No fingerprint
\* contains, as a substring, a non-empty value that the snapshot configures.
C8_NoValueInFingerprint ==
    \A i \in DOMAIN fingerprints :
        \A j \in DOMAIN env :
            env[j].value # <<>> => ~Includes(fingerprints[i], env[j].value)

\* the snapshot with every non-empty value replaced by one fixed value
SameValues(snapshot) ==
    [i \in DOMAIN snapshot |->
        [key |-> snapshot[i].key,
         value |-> IF snapshot[i].value = <<>> THEN <<>> ELSE SecretA]]

\* the characters of the names of the present keys, and the separator
NameCharacters(snapshot) ==
    {","} \cup UNION {{KeyChars[k][n] : n \in DOMAIN KeyChars[k]} :
                        k \in NonEmptyKeys(snapshot)}

\* C8 (amended): The fingerprint is computed from key names, never from
\* values.  Two snapshots that differ only in the values of present keys
\* have the same fingerprint, and every character of a fingerprint comes from
\* the name of a present key or is the separator, so a value occurs in it
\* only where the names themselves spell it.
C8_FingerprintIgnoresValues ==
    fingerprints # <<>> =>
        LET names == NameCharacters(env)
            same == getEnvFingerprint(SameValues(env))
        IN  \A i \in DOMAIN fingerprints :
                /\ fingerprints[i] = same
                /\ \A n \in DOMAIN fingerprints[i] : fingerprints[i][n] \in names

C8_Witness ==
    /\ Len(fingerprints) = 1
    /\ Len(env) = 2
    /\ env[1].key = "MOLTBOT_GATEWAY_TOKEN" /\ env[1].value = SecretB
    /\ env[2].key = "ANTHROPIC_API_KEY" /\ env[2].value = SecretA
    /\ Includes(fingerprints[1], SecretB)
    /\ ~Includes(fingerprints[1], SecretA)

(***************************************************************************)
(* Properties of should_restore_from_r2.                                   *)
(***************************************************************************)
Decided == restoreDecision # NoDecision

WellFormed(file) == file.kind = "iso"

Malformed(file) == file.kind \in {"empty", "garbage"}

\* C9: Restore gating.  No remote marker: do not restore.  A remote marker
\* and no local marker: restore.  Both present and well-formed: restore if
\* and only if the remote instant is strictly later than the local one.
C9_RestoreGating ==
    Decided =>
        /\ r2SyncFile = NoSyncFile => restoreDecision = RestoreNo
        /\ (r2SyncFile # NoSyncFile /\ localSyncFile = NoSyncFile) =>
              restoreDecision = RestoreYes
        /\ (WellFormed(r2SyncFile) /\ WellFormed(localSyncFile)) =>
              (restoreDecision = RestoreYes
                  <=> r2SyncFile.epoch > localSyncFile.epoch)

C9_Witness ==
    /\ Decided
    /\ WellFormed(r2SyncFile) /\ WellFormed(localSyncFile)
    /\ r2SyncFile.epoch = localSyncFile.epoch
    /\ restoreDecision = RestoreNo

\* C10 (as claimed): Malformed timestamps fail closed.  With both markers
\* present, if the remote or the local marker is malformed or unparsable the
\* decision is not to restore.
C10_MalformedFailsClosed ==
    (Decided /\ r2SyncFile # NoSyncFile /\ localSyncFile # NoSyncFile
        /\ (Malformed(r2SyncFile) \/ Malformed(localSyncFile)))
    => restoreDecision = RestoreNo

\* the listing of the current invocation was rejected
ListingFailed ==
    /\ calls # <<>>
    /\ calls[1] = Call("listProcesses", 0, FALSE)

\* C18: Enumeration failure is treated as no process.  When listProcesses
\* rejects, findExistingMoltbotProcess gives null and nothing is raised at
\* that point; ensureMoltbotGateway reads no marker, probes and kills no
\* existing process, and goes on to the marker write and then startProcess.
C18_EnumerationFailureStartsFresh ==
    ListingFailed =>
        /\ existingProcess = 0
        /\ pc \in {"writeMarker", "startProcess", "probeNew", "logsReady",
                   "logsFailed", "returned", "threw"}
        /\ ~Called("kill") /\ ~Called("readMarker")
        /\ Len(calls) >= 2 => calls[2].op = "writeMarker"
        /\ Len(calls) >= 3 => calls[3].op = "startProcess"
        /\ pc = "threw" => Len(calls) >= 3
        /\ outcome.kind = "ready" =>
               /\ Succeeded("startProcess", outcome.handle)
               /\ prev.handle # outcome.handle

\* a gateway is running, the listing is rejected, and a second gateway is
\* started and returned while the first is left alone
C18_Witness ==
    /\ ListingFailed
    /\ pc = "returned"
    /\ Len(procs) = 2
    /\ procs[1].status = "running"
    /\ outcome = Ready(2)
    /\ Succeeded("writeMarker", 0)

(***************************************************************************)
(* Properties of findExistingMoltbotProcess.                               *)
(***************************************************************************)
\* the text of the command of process i of the table
CommandOf(i) == CommandChars[procs[i].command]

\* C17: Process classification.  A process is returned only if its command
\* contains a gateway-launch pattern, contains none of the CLI exclusion
\* patterns (exclusion wins when both occur) and its status is starting or
\* running; a stopped or failed process, or one whose command contains an
\* exclusion pattern, is never returned.
C17_ProcessClassification ==
    found >= 1 =>
        /\ \E p \in {P_start_moltbot, P_openclaw_gateway, P_clawdbot_gateway} :
               Includes(CommandOf(found), p)
        /\ \A p \in {P_openclaw_devices, P_openclaw_version,
                      P_clawdbot_devices, P_clawdbot_version} :
               ~Includes(CommandOf(found), p)
        /\ procs[found].status \in {"starting", "running"}
        /\ procs[found].status \notin {"stopped", "failed"}

\* a running shell line that names both a CLI command and the gateway is
\* passed over, and the gateway listed after it is returned
C17_Witness ==
    /\ Len(procs) = 2
    /\ procs[1] = [command |-> VersionThenGateway, status |-> "running"]
    /\ procs[2] = [command |-> OpenclawGateway, status |-> "starting"]
    /\ found = 2

(***************************************************************************)
(* Properties of syncToR2 and syncToGitHub.                                *)
(***************************************************************************)
InSyncToR2 == syncOp = "syncToR2"
InSyncToGitHub == syncOp = "syncToGitHub"
Returned == syncPc = "done"

\* the mount, a transfer, the repository setup, the commit or the push of
\* the invocation did not end well
SomeStepFailed ==
    \E i \in DOMAIN syncSteps :
        /\ syncSteps[i].result \in {"failed", "hung"}
        /\ \/ syncSteps[i].op \in {"mount", "rsync"}
           \/ /\ syncSteps[i].op = "git"
              /\ syncSteps[i].arg \in {"setup", "commit", "push"}

StepResult(op, arg, result) ==
    \E i \in DOMAIN syncSteps : syncSteps[i] = Step(op, arg, result)

\* this invocation's command wrote .last-sync
MarkerWritten == StepResult("date", ".last-sync", "ok")

\* C11: Sync integrity gate.  When neither openclaw.json nor clawdbot.json
\* exists locally, syncToR2 starts no transfer command, the store's
\* .last-sync keeps the value it had when the call began, and the call
\* returns success=false with an error.
C11_SyncIntegrityGate ==
    (InSyncToR2 /\ localConfig = {}) =>
        /\ ~Started("startProcess", "sync")
        /\ ~StartedAny("rsync") /\ ~StartedAny("date")
        /\ syncPc \notin {"r2:sync", "r2:timestamp", "r2:logs"}
        /\ r2SyncFile = markerBefore
        /\ Returned => (~syncResult.success /\ syncResult.error # "")

\* the sanity check ran with no config file beside an earlier marker, and the call
\* was aborted
C11_Witness ==
    /\ InSyncToR2 /\ Returned
    /\ localConfig = {}
    /\ StepResult("startProcess", "check", "ok")
    /\ syncResult.error = "Sync aborted: source missing config file"
    /\ markerBefore = IsoText(1) /\ r2SyncFile = IsoText(1)

\* C12 (as claimed): Marker is the commit point.  syncToR2's command writes
\* .last-sync only after every transfer it started has ended with success;
\* when one of them failed, the fallback succeeding after a failed primary
\* config transfer included, the marker is not written.
C12_MarkerIsCommitPoint ==
    (InSyncToR2 /\ MarkerWritten) =>
        \A i \in DOMAIN syncSteps :
            syncSteps[i].op = "rsync" => syncSteps[i].result = "ok"

\* C13 (as claimed): Success is verified against a fresh marker.  syncToR2
\* returns success=true only when the marker it read back was written by
\* this invocation's command.
C13_SuccessMeansFreshMarker ==
    (InSyncToR2 /\ Returned /\ syncResult.success) =>
        /\ MarkerWritten
        /\ r2SyncFile = IsoText(now)
        /\ syncResult.lastSync = now

\* the invocation went through setup, copy and push with nothing failing
RanClean ==
    /\ Returned
    /\ Started("startProcess", "push")
    /\ \A i \in DOMAIN syncSteps : syncSteps[i].result = "ok"
    /\ syncResult.error # "GitHub sync error"

\* C14 (as claimed): No-op commit is success.  A syncToGitHub call made
\* with the workspace as the last successful call left it, that call having
\* committed and pushed, reports success with the no-changes note and
\* creates no changeset.
C14_NoOpCommitIsSuccess ==
    (/\ InSyncToGitHub /\ RanClean
     /\ lastBackup.changesets >= 1
     /\ lastBackup.pushed = lastBackup.changesets
     /\ lastBackup.workspace = localWorkspace) =>
        /\ syncResult.success
        /\ syncResult.details = "No changes to backup"
        /\ repo.changesets = lastBackup.changesets

\* C15 (as claimed): Three terminal outcomes of syncToGitHub.  The result
\* has success=true exactly when the changeset was committed and pushed or
\* there was nothing to commit; when setup, commit or push failed it has
\* success=false.
C15_ThreeTerminalOutcomes ==
    (InSyncToGitHub /\ Returned) =>
        /\ syncResult.error # "GitHub sync error" =>
              (syncResult.success <=>
                  \/ /\ StepResult("git", "commit", "ok")
                     /\ StepResult("git", "push", "ok")
                  \/ /\ Started("startProcess", "push")
                     /\ ~Started("git", "commit"))
        /\ (\E i \in DOMAIN syncSteps :
               /\ syncSteps[i].op = "git"
               /\ syncSteps[i].arg \in {"setup", "commit", "push"}
               /\ syncSteps[i].result \in {"failed", "hung"})
           => ~syncResult.success

\* C19 (as claimed): Sync failures are values.  Whenever the mount, the
\* sanity check, a transfer, the repository setup, the commit or the push
\* of an invocation failed, the SyncResult returned has success=false and
\* an error.
C19_FailuresAreReported ==
    (Returned /\ (SomeStepFailed \/ (InSyncToR2 /\ localConfig = {}
                                     /\ Started("startProcess", "check")))) =>
        /\ ~syncResult.success
        /\ syncResult.error # ""

\* C20: No transfer without preconditions.  syncToR2 starts no mount and no
\* process when one of the three R2 keys is missing and returns the
\* not-configured error; it starts nothing after a mount that reports
\* false and returns the mount-failure error; syncToGitHub starts no
\* process when GITHUB_TOKEN is absent.
C20_NoTransferWithoutPreconditions ==
    /\ (InSyncToR2 /\ ~(R2Keys \subseteq syncEnv.r2)) =>
           /\ syncSteps = <<>>
           /\ syncPc \in {"done", "idle"}
           /\ syncResult = SyncResult(FALSE, "R2 storage is not configured", "", 0)
    /\ (InSyncToR2 /\ StepResult("mount", "r2", "failed")) =>
           /\ Len(syncSteps) = 1
           /\ syncPc \in {"done", "idle"}
           /\ syncResult = SyncResult(FALSE, "Failed to mount R2 storage", "", 0)
    /\ (InSyncToGitHub /\ ~syncEnv.github) =>
           /\ syncSteps = <<>>
           /\ syncPc \in {"done", "idle"}
           /\ syncResult = SyncResult(FALSE, "GITHUB_TOKEN not configured", "", 0)
    /\ (syncOp # "none" /\ syncSteps = <<>>) => r2SyncFile = markerBefore

\* two of the three keys are set and nothing was started
C20_Witness ==
    /\ InSyncToR2 /\ Returned
    /\ syncEnv.r2 = {"R2_ACCESS_KEY_ID", "CF_ACCOUNT_ID"}
    /\ syncSteps = <<>>
    /\ syncResult.error = "R2 storage is not configured"

(***************************************************************************)
(* Properties of the redaction.                                            *)
(***************************************************************************)
Copied == repoConfig # NoDir

\* the characters of a text
CharsOf(text) == {text[i] : i \in DOMAIN text}

\* the credential fields a text holds as written by Stringify
FieldsOf(text) ==
    {k \in DOMAIN KeyText : \E i \in DOMAIN text :
        MatchAt(text, i, Quote(KeyText[k]) \o << ":" >>)}

\* C16 (as claimed): Redaction.  After the copy step every credential field
\* of every config file in the working tree holds [REDACTED], and nothing
\* of a credential value is left in the tree, whatever the value holds and
\* whether one or both of openclaw.json and clawdbot.json are there.
C16_Redaction ==
    Copied =>
        \A f \in {"openclaw", "clawdbot"} :
            repoConfig[f] # NoFile =>
                /\ CharsOf(repoConfig[f]) \cap SecretDigits = {}
                /\ \A k \in FieldsOf(configDir[f]) :
                      \E i \in DOMAIN repoConfig[f] :
                          MatchAt(repoConfig[f], i,
                                  Quote(KeyText[k]) \o << ":" >>
                                  \o Quote(Redacted))


\* the members of the Backup Target Set
BackupTargetSet == {"config", "workspace", "skills"}

\* this invocation's command ended a transfer of the target to its place in
\* the store: openclaw/ or clawdbot/, workspace/, skills/
Mirrored(target) ==
    CASE target = "config" ->
             \/ StepResult("rsync", "openclaw", "ok")
             \/ StepResult("rsync", "clawdbot", "ok")
      [] target = "workspace" -> StepResult("rsync", "workspace", "ok")
      [] OTHER -> StepResult("rsync", "skills", "ok")

\* C21 (as claimed): All three targets are transferred.  A syncToR2 call
\* whose command wrote .last-sync has ended a transfer of the configuration,
\* of the workspace and of the skills, each to its own place in the store.
\* The command of line 77 has no transfer to skills/, so this fails.
C21_AllTargetsTransferred ==
    (InSyncToR2 /\ MarkerWritten) => \A t \in BackupTargetSet : Mirrored(t)


\* the script restored the target: its copy command ran
RestoreRan(t) == restored[t] = "restore"

\* the script reached the gate of the target and took one side of it
GateTaken(t) == restored[t] \in {"restore", "skip"}

\* C22 (as claimed): Configuration and skills restores are full mirrors.
\* After a restore of the configuration or of the skills, the local tree
\* holds exactly the files of the durable copy; a local file the durable
\* copy lacks is gone.  `cp -a src/. dst/` removes nothing, so this fails.
C22_RestoreMirrors ==
    \A t \in {"config", "skills"} : RestoreRan(t) => disk[t] = store[t]

C29_EveryTargetGated ==
    [][\A t \in Targets :
           disk'[t] # disk[t] =>
               should_restore_from_r2(r2SyncFile, localSyncFile, todayMidnight)
                   = RestoreYes]_vars

\* C30 (as claimed): The configuration and the skills are restored as a
\* unit.  In one boot where both gates are reached, both restore or both
\* skip.  The configuration restore copies the store's marker over the
\* local one, so the second gate sees equal instants: this fails.
C30_DecisionsAgree ==
    (GateTaken("config") /\ GateTaken("skills")) =>
        restored["config"] = restored["skills"]


\* what a returned call has left in its own destination
OwnEffect ==
    /\ (InSyncToR2 /\ Returned) =>
           r2SyncFile = IF MarkerWritten THEN IsoText(now) ELSE markerBefore
    /\ (InSyncToGitHub /\ Returned /\ StepResult("git", "commit", "ok")) =>
           repo.head = Tree(localWorkspace, now)

WedgedCase ==
    /\ Terminal
    /\ existingProcess # 0
    /\ storedFingerprint = currentFingerprint
    /\ Rejected("waitForPort", existingProcess)

\* C25: Wedged process.  When a gateway is found, the marker matches and the
\* probe of that gateway times out, the invocation calls kill on it, then
\* attempts the marker write and calls startProcess; a handle it returns is
\* the one of the new process, whose own probe succeeded, and never the one
\* that timed out.
C25_WedgedProcessReplaced ==
    WedgedCase =>
        /\ CalledOn("kill", existingProcess)
        /\ Before("kill", existingProcess, "writeMarker")
        /\ Before("writeMarker", 0, "startProcess")
        /\ outcome.handle # existingProcess
        /\ pc = "returned" =>
              /\ outcome = Ready(process)
              /\ Succeeded("startProcess", process)
              /\ Succeeded("waitForPort", process)

C25_Witness ==
    /\ WedgedCase
    /\ Rejected("kill", existingProcess)
    /\ pc = "returned"
    /\ outcome = Ready(process)

\* C26 (as claimed): Marker before launch.  When an invocation that called
\* startProcess ends with an error, the marker holds the current
\* fingerprint.
C26_MarkerHoldsFingerprintOnFailure ==
    (pc = "threw" /\ Called("startProcess")) =>
        Trim(CatStdout(markerFile)) = currentFingerprint

\* C26 (amended): In every invocation that calls startProcess the marker
\* write is attempted before it; if that write succeeded the marker holds
\* the current fingerprint from then on, whether the launch and the probe
\* succeed or fail.
C26_MarkerAttemptedBeforeLaunch ==
    Called("startProcess") =>
        /\ Before("writeMarker", 0, "startProcess")
        /\ Succeeded("writeMarker", 0) =>
              Trim(CatStdout(markerFile)) = currentFingerprint

C26_Witness ==
    /\ pc = "threw"
    /\ Succeeded("writeMarker", 0)
    /\ Rejected("startProcess", 0)
    /\ currentFingerprint # <<>>
    /\ Trim(CatStdout(markerFile)) = currentFingerprint

\* C27 (as claimed): Log capture never blocks the primary flow.  An
\* invocation whose new process passed its readiness probe returns that
\* process, whether getLogs then succeeds or fails.
C27_LogCaptureNeverBlocks ==
    (Terminal /\ process # 0 /\ Succeeded("waitForPort", process)) =>
        /\ pc = "returned"
        /\ outcome = Ready(process)

\* C28 (as claimed): Best-effort steps never abort supervision.  The
\* outcome is decided only by startProcess and waitForPort: an invocation
\* raises only when startProcess was rejected or the probe of the new
\* process timed out, whatever the mount, setEnvVars, the marker write and
\* the kills did.
C28_OutcomeDecidedByLaunchAndProbe ==
    pc = "threw" =>
        \/ Rejected("startProcess", 0)
        \/ process # 0 /\ Rejected("waitForPort", process)


\* how many calls of op the invocation has made
CountCalls(op) == Cardinality({i \in DOMAIN calls : calls[i].op = op})

\* how far into ensureMoltbotGateway a position is
Rank(position) ==
    CASE position = "idle" -> 0
      [] position = "mount" -> 1
      [] position = "setEnvVars" -> 2
      [] position = "find" -> 3
      [] position = "readMarker" -> 4
      [] position \in {"killChanged", "probeExisting"} -> 5
      [] position = "killWedged" -> 6
      [] position = "writeMarker" -> 7
      [] position = "startProcess" -> 8
      [] position = "probeNew" -> 9
      [] position = "logsReady" -> 10
      [] position = "logsFailed" -> 11
      [] OTHER -> 12

\* C38: Bounded supervision cycle.  Every step of an invocation moves it
\* strictly forward (there is no way back to an earlier position, so after
\* at most twelve steps it has returned or raised), it calls kill at most
\* once, startProcess at most once and waitForPort at most twice, and it
\* ends as ready or as failed.
C38_BoundedCycle ==
    [][/\ pc' # "idle" => Rank(pc') > Rank(pc)
       /\ CountCalls("kill")' <= 1
       /\ CountCalls("startProcess")' <= 1
       /\ CountCalls("waitForPort")' <= 2
       /\ Terminal' => outcome'.kind \in {"ready", "failed"}]_vars

C38_Witness ==
    /\ Terminal
    /\ CountCalls("kill") = 1
    /\ CountCalls("startProcess") = 1
    /\ CountCalls("waitForPort") = 2


\* the gateway processes the sandbox counts as alive
LiveGateways ==
    {i \in DOMAIN procs :
        isGatewayProcess(procs[i].command) /\ procs[i].status \in {"starting", "running"}}

\* C32 (as claimed): Exactly one supervised process.  Invocations never
\* overlap in this model; whenever none is in progress, at most one gateway
\* process in status starting or running exists.  A kill that fails is
\* swallowed and followed by startProcess, so this fails.
C32_AtMostOneGateway ==
    (pc = "idle" \/ Terminal) => Cardinality(LiveGateways) <= 1

\* C39 (as claimed): A returned handle always runs with the current
\* configuration.  The process an invocation returns was launched from a
\* snapshot with the fingerprint the invocation computed.
C39_ReturnedHandleIsCurrent ==
    pc = "returned" =>
        procs[outcome.handle].fingerprint = currentFingerprint

\* C40: for any two environment snapshots for which buildEnvVars gives the
\* launched process different sets of variable names, getEnvFingerprint
\* gives different fingerprints (so the supervisor restarts between them).
C40_ShapeChangeDetected ==
    (envVars # <<>> /\ fingerprints # <<>>) =>
        \A other \in LaunchSnapshots :
            DOMAIN buildEnvVars(other) # DOMAIN envVars[1] =>
                getEnvFingerprint(other) # fingerprints[1]

\* a boot with the durable store as it is now would skip the config restore,
\* whatever the clock says
SecondBootSkips ==
    \A midnight \in 0..MaxTime :
        should_restore_from_r2(r2SyncFile, localSyncFile, midnight) = RestoreNo

Launched == {i \in Invocations : frames[i].existingProcess = 0 /\ frames[i].process # 0}

\* C33: No internal serialization of the supervisor.  Whatever another
\* invocation is doing, an invocation may begin; and the invocations that
\* found no process to reuse and called startProcess each launched a
\* process of their own.
C33_NoSingleFlight ==
    /\ \A i \in Invocations : frames[i].pc = "idle" => ENABLED RaceBegin(i)
    /\ \A i, j \in Launched : i # j => frames[i].process # frames[j].process
    /\ Cardinality(Launched) <= Len(procs)

\* both invocations listed the processes, saw none to reuse and launched:
\* two live gateway processes for one environment
C33_Witness ==
    /\ Launched = Invocations
    /\ \A i \in Invocations : frames[i].listOk
    /\ Cardinality(LiveGateways) = 2

\* every file the store held when the boot began is in the store unchanged
StoreIntact ==
    \A t \in {"config", "workspace"}, p \in Paths :
        storeAtBoot[t][p] # Absent => store[t][p] = storeAtBoot[t][p]

\* C31 (as claimed): The sanity check protects the only good copy.  The
\* store holding a complete backup, a boot that began on an empty disk and
\* restored nothing, and a syncToR2 begun after that boot: the sync leaves
\* every backed-up configuration and workspace file of the store as it was.
\* The check passes on the config file made from the template, so this fails.
C31_GoodCopyProtected ==
    (/\ bootPc = "done"
     /\ bootAtMirror = "done"
     /\ mirrorPc = "done"
     /\ diskBefore = [t \in Targets |-> EmptyTree]
     /\ \A t \in Targets : restored[t] # "restore"
     /\ HasConfigFile(storeAtBoot["config"])
     /\ NotEmpty(storeAtBoot["workspace"]))
    => StoreIntact

\* C34 (as claimed): Restore and sync do not interfere.  A syncToR2 that
\* began while the start script, the store mounted, was at one of its three
\* restore sections, the script having restored the configuration and both
\* having finished: every file the store held before the boot is still in
\* the store or is on the local disk.  Nothing keeps the transfers out of
\* the restore, so this fails.
C34_NoInterference ==
    (/\ bootPc = "done"
     /\ mirrorPc = "done"
     /\ bootAtMirror \in {"config", "skills", "workspace"}
     /\ restored["config"] = "restore")
    => \A t \in Targets, p \in Paths :
           storeAtBoot[t][p] # Absent =>
               store[t][p] # Absent \/ disk[t][p] # Absent

\* C35 (as claimed): Fresher local state is never clobbered.  After a
\* syncToR2 that transferred everything, wrote its marker and reported
\* success, and with the disk not wiped since, the
\* config section of the start script leaves every local configuration file
\* as it was.  The sync moves only the store's marker forward, so the
\* restore runs and this fails.
C35_FresherLocalKept ==
    (/\ mirrorAtBoot = "done"
     /\ mirrorSuccess = "success"
     /\ r2SyncFile = IsoText(MaxTime)
     /\ \A t \in Targets : storeAtBoot[t] = diskAtSync[t]
     /\ ~wiped
     /\ bootPc \in {"skills", "workspace", "template", "done"})
    => \A p \in Paths :
           diskBefore["config"][p] # Absent =>
               disk["config"][p] = diskBefore["config"][p]

\* C37 (as claimed): Backup/restore round trip.  After a syncToR2 that
\* reported success, a wipe and a boot, every configuration and workspace
\* file (the skills among them) that was on the local disk when the sync
\* began is on the local disk again, unchanged.
C37_RoundTrip ==
    (/\ mirrorSuccess = "success"
     /\ wiped
     /\ bootPc = "done")
    => \A t \in Targets, p \in Paths :
           diskAtSync[t][p] # Absent => disk[t][p] = diskAtSync[t][p]

====
